---- MODULE Spec2Model ----
(***************************************************************************)
(* FlowPay Coin: one node process (network/node.js or network/server.js)   *)
(* running the ledger engine of blockchain.js.  The node's chain, UTXO set *)
(* and mempool are driven by the REST operations (POST /tx, POST /mine)    *)
(* and by the messages NEW_TX, NEW_BLOCK and CHAIN_RESPONSE that untrusted *)
(* peers may send.                                                         *)
(*                                                                         *)
(* A digest (a 64 character hex string in the code) is the record          *)
(* [z |-> its number of leading zero hex characters, pre |-> what was      *)
(* hashed]: sha256 is collision free on the values of the model, and a     *)
(* string that is not the digest of anything the model hashes is a digest  *)
(* whose pre is tagged "forged" or "literal".                              *)
(***************************************************************************)
EXTENDS Integers, Sequences, FiniteSets, TLC

\* ---------------------------------------------------------------- bounds
MaxChain == 3
MaxMempool == 2
MaxSends == 2
MaxPeerMsgs == 1
MaxMined == 3
MaxLeaves == 5
MaxDials == 3
MaxRelayMsgs == 3

\* ------------------------------------------------------ program constants
MINING_REWARD == 50
DIFFICULTY == 4
GenesisAmount == 5000
GenesisMiningTime == 771
\* the model's clock counts from the timestamp of the genesis block
GenesisTimestamp == 0
HexDigits == 64
AddressDigits == 40

\* ---------------------------------------------------------------- sha256
\* The number of leading zero hex characters of the digest of x.  Only the
\* digests of block headers are ever tested for it; for a header it varies
\* with every field that mine() and the clock change, and every value from 0
\* to DIFFICULTY + 1 is hit by some nonce.
LeadingZeros(x) ==
    IF x[1] = "hdr" THEN (x[2] + x[5] + x[7]) % (DIFFICULTY + 2) ELSE 0

sha256(x) == [z |-> LeadingZeros(x), pre |-> x]

\* '0'.repeat(64), the previousHash of a genesis block and the txHash of a
\* coinbase input
ZeroHash == [z |-> HexDigits, pre |-> <<"literal", "0">>]

\* '' : the hash of a block that was constructed and not mined
EmptyString == [z |-> 0, pre |-> <<"literal", "">>]

\* hash.startsWith('0'.repeat(n))
startsWithZeros(hash, n) == hash.z >= n

\* ------------------------------------------------------- keys and wallets
derivePublicKey(privateKey) == sha256(<<"key", privateKey>>)

\* sha256(publicKey).substring(0, 40)
deriveAddress(publicKey) ==
    [z |-> 0, pre |-> <<"substring", AddressDigits, sha256(<<"pub", publicKey>>)>>]

signData(data, privateKey) == sha256(<<"sig", data, privateKey>>)

Wallet(privateKey) ==
    [privateKey |-> privateKey,
     publicKey  |-> derivePublicKey(privateKey),
     address    |-> deriveAddress(derivePublicKey(privateKey))]

\* the wallet initNode creates or loads: the only wallet of the process
nodeWallet == Wallet("node-private-key")

\* publicKey -> wallet, as the set of the wallets registered in this process
WALLET_REGISTRY == {nodeWallet}

founderAddress == [z |-> 0, pre |-> <<"literal", "e15c65c6268f49044d423f71cfab78c271c6543a">>]

\* an address of another party (a peer's wallet, a payee)
peerAddress == deriveAddress(derivePublicKey("peer-private-key"))

\* the wallet of the process of a peer
peerWallet == Wallet("peer-private-key")

\* WALLET_REGISTRY as it is in the process of that peer
PEER_REGISTRY == {peerWallet}

\* verifySignature in a process whose WALLET_REGISTRY is registry
verifySignatureIn(registry, data, signature, publicKey) ==
    \E wallet \in registry :
        /\ wallet.publicKey = publicKey
        /\ sha256(<<"sig", data, wallet.privateKey>>) = signature

verifySignature(data, signature, publicKey) ==
    verifySignatureIn(WALLET_REGISTRY, data, signature, publicKey)

\* ------------------------------------------------------------ MerkleTree
RECURSIVE PairLevel(_, _)
PairLevel(level, i) ==
    IF i > Len(level) THEN <<>>
    ELSE LET left  == level[i]
             right == IF i + 1 <= Len(level) THEN level[i + 1] ELSE level[i]
         IN  <<sha256(<<"pair", left, right>>)>> \o PairLevel(level, i + 2)

RECURSIVE ReduceLevels(_)
ReduceLevels(level) ==
    IF Len(level) > 1 THEN ReduceLevels(PairLevel(level, 1)) ELSE level[1]

computeRoot(hashes) ==
    IF Len(hashes) = 0 THEN sha256(<<"literal", "">>) ELSE ReduceLevels(hashes)

\* getProof(hashes, index), index counted from 0: at each level the pair
\* that starts at idx - (idx % 2) gives the step, the other hash of the pair
\* and the side it is on; an index past the level gives no step
RECURSIVE getProofFrom(_, _)
getProofFrom(level, idx) ==
    IF ~(Len(level) > 1) THEN <<>>
    ELSE LET i     == idx - (idx % 2)
             left  == level[i + 1]
             right == IF i + 2 <= Len(level) THEN level[i + 2] ELSE level[i + 1]
             step  == IF idx % 2 = 0 THEN [hash |-> right, position |-> "right"]
                      ELSE [hash |-> left, position |-> "left"]
         IN  (IF i >= 0 /\ i < Len(level) THEN <<step>> ELSE <<>>)
                 \o getProofFrom(PairLevel(level, 1), idx \div 2)

\* a proof whose steps have their sides exchanged
RECURSIVE getProofFromSwapped(_, _)
getProofFromSwapped(level, idx) ==
    IF ~(Len(level) > 1) THEN <<>>
    ELSE LET i     == idx - (idx % 2)
             left  == level[i + 1]
             right == IF i + 2 <= Len(level) THEN level[i + 2] ELSE level[i + 1]
             step  == IF idx % 2 = 0 THEN [hash |-> right, position |-> "left"]
                      ELSE [hash |-> left, position |-> "right"]
         IN  (IF i >= 0 /\ i < Len(level) THEN <<step>> ELSE <<>>)
                 \o getProofFromSwapped(PairLevel(level, 1), idx \div 2)

getProofSwapped(hashes, index) ==
    IF Len(hashes) <= 1 THEN <<>> ELSE getProofFromSwapped(hashes, index)

getProof(hashes, index) ==
    IF Len(hashes) <= 1 THEN <<>> ELSE getProofFrom(hashes, index)

\* for (const step of proof) hash = sha256(hash + step.hash) or
\* sha256(step.hash + hash); the digest after the steps from k on
RECURSIVE foldProof(_, _, _)
foldProof(hash, proof, k) ==
    IF k > Len(proof) THEN hash
    ELSE foldProof(IF proof[k].position = "right"
                   THEN sha256(<<"pair", hash, proof[k].hash>>)
                   ELSE sha256(<<"pair", proof[k].hash, hash>>),
                   proof, k + 1)

verifyProof(txHash, proof, root) == foldProof(txHash, proof, 1) = root

\* ----------------------------------------------------------- Transaction
computeHash(inputs, outputs, timestamp, isCoinbase) ==
    sha256(<<"tx", inputs, outputs, timestamp, isCoinbase>>)

\* new Transaction(inputs, outputs, isCoinbase) at time t
Transaction(inputs, outputs, isCoinbase, t) ==
    [inputs     |-> inputs,
     outputs    |-> outputs,
     signatures |-> <<>>,
     isCoinbase |-> isCoinbase,
     timestamp  |-> t,
     hash       |-> computeHash(inputs, outputs, t, isCoinbase)]

\* tx.sign(privateKey): one signature over tx.hash per input
sign(tx, privateKey) ==
    [tx EXCEPT !.signatures =
        tx.signatures \o [i \in 1..Len(tx.inputs) |-> signData(tx.hash, privateKey)]]

\* a coinbase that pays the reward twice
createCoinbaseTwice(address, reward, blockHeight, t) ==
    Transaction(<<[txHash |-> ZeroHash, outputIndex |-> blockHeight]>>,
                <<[address |-> address, amount |-> reward],
                  [address |-> address, amount |-> reward]>>, TRUE, t)

createCoinbase(address, reward, blockHeight, t) ==
    Transaction(<<[txHash |-> ZeroHash, outputIndex |-> blockHeight]>>,
                <<[address |-> address, amount |-> reward]>>, TRUE, t)

\* An amount is a JavaScript number; the model counts it in thousandths of a
\* coin, so that n coins are the amount FPC(n)
FPC(n) == n * 1000

\* Math.round(x * 100) / 100: x to the nearest hundredth of a coin, a half
\* rounded up
roundCents(x) == ((x + 5) \div 10) * 10

RECURSIVE SumAmounts(_)
SumAmounts(s) == IF Len(s) = 0 THEN 0 ELSE s[1].amount + SumAmounts(Tail(s))

\* ---------------------------------------------------------- the UTXO map
\* A JavaScript Map in insertion order: a sequence of entries
\* [key |-> <<txHash, outputIndex>>, address, amount] with distinct keys.
utxoKey(inp) == <<inp.txHash, inp.outputIndex>>

MapHas(map, key) == \E i \in 1..Len(map) : map[i].key = key

MapGet(map, key) == map[CHOOSE i \in 1..Len(map) : map[i].key = key]

MapDelete(map, key) == SelectSeq(map, LAMBDA e : e.key # key)

MapSet(map, key, out) ==
    LET entry == [key |-> key, address |-> out.address, amount |-> out.amount]
    IN  IF MapHas(map, key)
        THEN [i \in 1..Len(map) |-> IF map[i].key = key THEN entry ELSE map[i]]
        ELSE Append(map, entry)

\* the amount an input resolves to in a UTXO map (0 when it is absent)
ResolvedAmount(map, inp) ==
    IF MapHas(map, utxoKey(inp)) THEN MapGet(map, utxoKey(inp)).amount ELSE 0

RECURSIVE getInputTotal(_, _)
getInputTotal(inputs, map) ==
    IF Len(inputs) = 0 THEN 0
    ELSE ResolvedAmount(map, inputs[1]) + getInputTotal(Tail(inputs), map)

\* tx.signatures; a transaction object that server.js took over from wire
\* data as it came may have none
Signatures(tx) == IF "signatures" \in DOMAIN tx THEN tx.signatures ELSE <<>>

\* the signature check of verify for input i: some registered wallet owns
\* the address of the UTXO and signatures[i] is its signature over tx.hash
InputSignedIn(registry, tx, i, map) ==
    /\ MapHas(map, utxoKey(tx.inputs[i]))
    /\ i <= Len(Signatures(tx))
    /\ \E wallet \in registry :
          /\ wallet.address = MapGet(map, utxoKey(tx.inputs[i])).address
          /\ verifySignatureIn(registry, tx.hash, Signatures(tx)[i], wallet.publicKey)

InputSigned(tx, i, map) == InputSignedIn(WALLET_REGISTRY, tx, i, map)

\* tx.verify(utxoSet) in a process whose WALLET_REGISTRY is registry
verifyIn(registry, tx, map) ==
    \/ tx.isCoinbase
    \/ /\ \A i \in 1..Len(tx.inputs) : InputSignedIn(registry, tx, i, map)
       /\ getInputTotal(tx.inputs, map) >= SumAmounts(tx.outputs)

\* tx.verify(utxoSet) in the process of the node
verify(tx, map) == verifyIn(WALLET_REGISTRY, tx, map)

\* ----------------------------------------------------------------- Block
\* new Block(height, previousHash, transactions, difficulty) at time t
Block(height, previousHash, transactions, difficulty, t) ==
    [height       |-> height,
     previousHash |-> previousHash,
     transactions |-> transactions,
     difficulty   |-> difficulty,
     timestamp    |-> t,
     merkleRoot   |-> computeRoot([i \in 1..Len(transactions) |-> transactions[i].hash]),
     nonce        |-> 0,
     hash         |-> EmptyString,
     miningTime   |-> 0]

\* `${height}:${previousHash}:${merkleRoot}:${timestamp}:${difficulty}:${nonce}`
getHeaderString(b) ==
    <<"hdr", b.height, b.previousHash, b.merkleRoot, b.timestamp, b.difficulty, b.nonce>>

\* do { nonce++; hash = sha256(header) } while (!hash.startsWith(target))
RECURSIVE mine(_)
mine(b) ==
    LET n == [b EXCEPT !.nonce = b.nonce + 1]
        m == [n EXCEPT !.hash = sha256(getHeaderString(n))]
    IN  IF startsWithZeros(m.hash, m.difficulty) THEN m ELSE mine(m)

\* ------------------------------------------------------- canonical genesis
\* genesis.js gives the block as literals; its transaction hash is the
\* digest of its content and its hash the digest of its header, with four
\* leading zeros, so here it is the block that mining its header yields.
genesisTransaction == createCoinbase(founderAddress, FPC(GenesisAmount), 0, GenesisTimestamp)

GENESIS ==
    [mine(Block(0, ZeroHash, <<genesisTransaction>>, DIFFICULTY, GenesisTimestamp))
        EXCEPT !.miningTime = GenesisMiningTime]

\* ---------------------------------------------------- _processBlockUTXOs
RECURSIVE DeleteInputs(_, _)
DeleteInputs(map, inputs) ==
    IF Len(inputs) = 0 THEN map
    ELSE DeleteInputs(MapDelete(map, utxoKey(inputs[1])), Tail(inputs))

RECURSIVE SetOutputs(_, _, _, _)
SetOutputs(map, txHash, outputs, idx) ==
    IF idx >= Len(outputs) THEN map
    ELSE SetOutputs(MapSet(map, <<txHash, idx>>, outputs[idx + 1]), txHash, outputs, idx + 1)

ProcessTx(map, tx) ==
    SetOutputs(IF tx.isCoinbase THEN map ELSE DeleteInputs(map, tx.inputs),
               tx.hash, tx.outputs, 0)

RECURSIVE ProcessTxs(_, _)
ProcessTxs(map, txs) ==
    IF Len(txs) = 0 THEN map ELSE ProcessTxs(ProcessTx(map, txs[1]), Tail(txs))

processBlockUTXOs(map, block) == ProcessTxs(map, block.transactions)

\* What each transaction of a block met in the UTXO map at the moment it was
\* applied (history, not program state): whether every input resolved,
\* whether every input carried its owner's signature, and the input total.
ApplyRecord(map, tx) ==
    [hash       |-> tx.hash,
     isCoinbase |-> tx.isCoinbase,
     inputs     |-> {utxoKey(tx.inputs[i]) : i \in 1..Len(tx.inputs)},
     resolved   |-> \A i \in 1..Len(tx.inputs) : MapHas(map, utxoKey(tx.inputs[i])),
     signed     |-> \A i \in 1..Len(tx.inputs) : InputSigned(tx, i, map),
     inputTotal |-> getInputTotal(tx.inputs, map),
     outputTotal |-> SumAmounts(tx.outputs)]

RECURSIVE ApplyLog(_, _)
ApplyLog(map, txs) ==
    IF Len(txs) = 0 THEN <<>>
    ELSE <<ApplyRecord(map, txs[1])>> \o ApplyLog(ProcessTx(map, txs[1]), Tail(txs))

\* ---------------------------------------------------------------- Wallet
\* getUTXOs(address): the entries of the map owned by address, in map order
getUTXOs(map, address) == SelectSeq(map, LAMBDA e : e.address = address)

getBalance(map, address) == roundCents(SumAmounts(getUTXOs(map, address)))

\* for (const utxo of utxos) { inputs.push; inputSum += amount; if (inputSum >= amount) break }
RECURSIVE SelectInputs(_, _, _, _)
SelectInputs(utxos, amount, inputs, inputSum) ==
    IF Len(utxos) = 0 THEN [inputs |-> inputs, inputSum |-> inputSum]
    ELSE LET picked == Append(inputs, [txHash |-> utxos[1].key[1], outputIndex |-> utxos[1].key[2]])
             total  == inputSum + utxos[1].amount
         IN  IF total >= amount THEN [inputs |-> picked, inputSum |-> total]
             ELSE SelectInputs(Tail(utxos), amount, picked, total)

\* createTransaction throws 'Insufficient balance'
InsufficientBalance(wallet, map, amount) ==
    SelectInputs(getUTXOs(map, wallet.address), amount, <<>>, 0).inputSum < amount

createTransaction(wallet, map, recipientAddress, amount, t) ==
    LET sel     == SelectInputs(getUTXOs(map, wallet.address), amount, <<>>, 0)
        change  == roundCents(sel.inputSum - amount)
        outputs == <<[address |-> recipientAddress, amount |-> amount]>>
                   \o (IF change > 0 THEN <<[address |-> wallet.address, amount |-> change]>>
                       ELSE <<>>)
    IN  sign(Transaction(sel.inputs, outputs, FALSE, t), wallet.privateKey)

\* ------------------------------------------------------------------ state
VARIABLES
    impl,      \* the entry point the process runs: "node" (node.js) or "server" (server.js)
    running,   \* FALSE once an uncaught exception has ended the process
    chain,     \* blockchain.chain
    utxoSet,   \* blockchain.utxoSet
    mempool,   \* blockchain.mempool
    now,       \* Date.now()
    sends,     \* history: the POST /tx requests served so far
    peerMsgs,  \* history: the peer messages handled so far
    applied,   \* history: for each block of chain, the ApplyLog of its application
    last,      \* history: the last operation of the node and its outcome
    msg,       \* history: the data of the peer message that operation handled
    out,       \* history: what that operation sent to peers and passed to observers
    ledger,    \* network: the chain, UTXO map and ApplyLogs of each node
    socks,     \* network: each connection closed, accepted or open
    peersOf,   \* network: the peers map of each node, by connection
    wire,      \* network: the messages in flight to each end of each connection
    handshakes,\* history: the HANDSHAKE messages each end of each connection sent
    mining,    \* network: FALSE once the mining has stopped
    mined,     \* history: the blocks the two nodes have mined
    isMining,  \* event loop: the flag isMining of the process
    miningInterval, \* event loop: null, or the timer setTimeout(mineLoop) returned
    timers,    \* event loop: the timeouts of mineLoop that are pending
    round,     \* event loop: the call of Block.mine() the thread is in, if any
    inbox,     \* event loop: the NEW_BLOCK messages that arrived and wait for the thread
    chainFile, \* disk: what chain.json holds
    dials,     \* discovery: the sockets connectToPeer made, connecting or open
    relays     \* history: the NEW_TX and NEW_BLOCK messages the node passed on

netvars == <<ledger, socks, peersOf, wire, handshakes, mining, mined>>

loopvars == <<isMining, miningInterval, timers, round, inbox, dials, relays>>

vars == <<impl, running, chain, utxoSet, mempool, now, sends, peerMsgs, applied, last, msg,
          out, ledger, socks, peersOf, wire, handshakes, mining, mined,
          isMining, miningInterval, timers, round, inbox, chainFile, dials, relays>>

Outcome(op, result) == [op |-> op, result |-> result]

\* msg after an operation that no peer message started
NoMessage == <<>>

\* the processes of the two-node network
Nodes == {"A", "B"}

\* a connection <<d, l>>: d called connectToPeer with the address of l;
\* the two nodes are joined by one connection
Conns == {<<"A", "B">>}

\* round when the thread is in no call of Block.mine()
NoRound == [by |-> "none", height |-> 0]

\* a connection absent from the peers map of a node
NoPeer == [address |-> "none", handshakeDone |-> FALSE, chainLength |-> 0]

\* ------------------------------------------- reconstruction from wire data
\* new Transaction(txd.inputs, txd.outputs, txd.isCoinbase), then timestamp,
\* hash and signatures taken from the data: the hash is never recomputed
RebuildTx(txd) ==
    [inputs     |-> txd.inputs,
     outputs    |-> txd.outputs,
     signatures |-> IF "signatures" \in DOMAIN txd THEN txd.signatures ELSE <<>>,
     isCoinbase |-> txd.isCoinbase,
     timestamp  |-> txd.timestamp,
     hash       |-> txd.hash]

\* blockData.transactions.map(...) throws when the field is missing
Malformed(blockData) == "transactions" \notin DOMAIN blockData

\* new Block(...), then timestamp, merkleRoot, nonce, hash and miningTime
\* taken from the data: neither the Merkle root nor the hash is recomputed.
\* server.js does it with Object.assign(block, blockData), which also puts
\* the transactions of the data, as they came, in place of the rebuilt ones.
RebuildBlock(blockData) ==
    [height       |-> blockData.height,
     previousHash |-> blockData.previousHash,
     transactions |-> IF impl = "server" THEN blockData.transactions
                      ELSE [i \in 1..Len(blockData.transactions) |->
                               RebuildTx(blockData.transactions[i])],
     difficulty   |-> blockData.difficulty,
     timestamp    |-> blockData.timestamp,
     merkleRoot   |-> blockData.merkleRoot,
     nonce        |-> blockData.nonce,
     hash         |-> blockData.hash,
     miningTime   |-> IF "miningTime" \in DOMAIN blockData THEN blockData.miningTime ELSE 0]

\* chain.push(block); _processBlockUTXOs(block), on a ledger st
PushBlock(st, block) ==
    [chain   |-> Append(st.chain, block),
     utxoSet |-> processBlockUTXOs(st.utxoSet, block),
     applied |-> Append(st.applied, ApplyLog(st.utxoSet, block.transactions)),
     ok      |-> TRUE]

EmptyLedger == [chain |-> <<>>, utxoSet |-> <<>>, applied |-> <<>>, ok |-> TRUE]

\* a reset that empties the chain and leaves the UTXO map as it is
ResetLedgerKeepsUtxoSet ==
    [chain |-> <<>>, utxoSet |-> utxoSet, applied |-> <<>>, ok |-> TRUE]

\* blockchain.chain = []; blockchain.utxoSet = new Map() of handleChainResponse
ResetLedger == EmptyLedger

\* for (const blockData of data) { rebuild; push; process }: ok is FALSE when
\* a block of data made it throw, and the ledger is as the throw left it.
\* The ledger after each push is computed once, as the element of a set.
RECURSIVE rebuildChainFromData(_, _)
rebuildChainFromData(st, data) ==
    IF Len(data) = 0 THEN st
    ELSE IF Malformed(data[1]) THEN [st EXCEPT !.ok = FALSE]
    ELSE LET pushed == {PushBlock(st, RebuildBlock(data[1]))}
         IN  CHOOSE r \in {rebuildChainFromData(v, Tail(data)) : v \in pushed} : TRUE

\* loadCanonicalGenesis on the empty ledger of a new process
loadCanonicalGenesis == PushBlock(EmptyLedger, GENESIS)

\* ------------------------------------------------------- what peers send
ForgedHash(z) == [z |-> z, pre |-> <<"forged", z>>]

genesisOutput == [txHash |-> genesisTransaction.hash, outputIndex |-> 0]

\* a transfer of the founder's genesis output to the peer, which the peer
\* cannot sign (the data carries no signatures) and which pays out more than
\* the output holds
TheftOutputs == <<[address |-> peerAddress, amount |-> FPC(GenesisAmount + MINING_REWARD)]>>

TheftTx(t) ==
    [inputs     |-> <<genesisOutput>>,
     outputs    |-> TheftOutputs,
     isCoinbase |-> FALSE,
     timestamp  |-> t,
     hash       |-> computeHash(<<genesisOutput>>, TheftOutputs, t, FALSE)]

\* a transaction that spends an output no block created
UnknownInputTx(t) ==
    sign(Transaction(<<[txHash |-> ForgedHash(0), outputIndex |-> 0]>>,
                     <<[address |-> peerAddress, amount |-> FPC(MINING_REWARD)]>>, FALSE, t),
         "peer-private-key")

\* a transaction flagged isCoinbase that pays the peer
ForgedCoinbase(t) == createCoinbase(peerAddress, FPC(MINING_REWARD), 0, t)

\* the transaction the peer's own POST /tx made and admitted at time t, its
\* UTXO map being map: 20 coins of the peer, paid to the node
PeerPayment(map, t) ==
    createTransaction(peerWallet, map, nodeWallet.address, FPC(20), t)

\* what NEW_TX carries: the three above, an echo of a transaction of the
\* node's own mempool, an echo of the first transaction of its chain, or
\* the peer's payment when the peer holds the coins
PeerTxs ==
    {TheftTx(now), UnknownInputTx(now), ForgedCoinbase(now)}
    \cup {mempool[i] : i \in 1..Len(mempool)}
    \cup (IF Len(chain) > 0 THEN {chain[1].transactions[1]} ELSE {})
    \cup (IF InsufficientBalance(peerWallet, utxoSet, FPC(20)) THEN {}
          ELSE {PeerPayment(utxoSet, now)})

\* a block a peer mined at time t on previousHash, with the given
\* transactions after its own coinbase
PeerBlock(height, previousHash, txs, difficulty, t) ==
    mine(Block(height, previousHash,
               <<createCoinbase(peerAddress, FPC(MINING_REWARD), height, t)>> \o txs,
               difficulty, t))

\* the same block with a hash that is not the digest of its header; the data
\* carries no miningTime
Unsealed(block, z) ==
    [height       |-> block.height,
     previousHash |-> block.previousHash,
     transactions |-> block.transactions,
     difficulty   |-> block.difficulty,
     timestamp    |-> block.timestamp,
     merkleRoot   |-> block.merkleRoot,
     nonce        |-> block.nonce,
     hash         |-> ForgedHash(z)]

\* block data without its transactions
NoTransactions(block) ==
    [height       |-> block.height,
     previousHash |-> block.previousHash,
     difficulty   |-> block.difficulty,
     timestamp    |-> block.timestamp,
     merkleRoot   |-> block.merkleRoot,
     nonce        |-> block.nonce,
     hash         |-> block.hash]

\* the block of each kind a peer makes at time t for position height, on top
\* of a block with hash tipHash; pool is the mempool the peer has seen
KindBlock(kind, height, tipHash, t, pool) ==
    CASE kind = "honest"        -> PeerBlock(height, tipHash, <<>>, DIFFICULTY, t)
      [] kind = "confirming"    -> PeerBlock(height, tipHash, pool, DIFFICULTY, t)
      [] kind = "theft"         -> PeerBlock(height, tipHash, <<TheftTx(t)>>, DIFFICULTY, t)
      [] kind = "lowDifficulty" -> PeerBlock(height, tipHash, <<>>, 0, t)
      [] kind = "unsealed"      ->
            Unsealed(PeerBlock(height, tipHash, <<>>, DIFFICULTY, t), DIFFICULTY)
      [] kind = "badHeight"     -> PeerBlock(height + 2, tipHash, <<>>, DIFFICULTY, t)
      [] kind = "badPoW"        ->
            Unsealed(PeerBlock(height, tipHash, <<>>, DIFFICULTY, t), DIFFICULTY - 1)
      [] kind = "badLink"       ->
            PeerBlock(height, ForgedHash(DIFFICULTY), <<>>, DIFFICULTY, t)
      [] kind = "ahead"         ->
            PeerBlock(height + 1, ForgedHash(DIFFICULTY), <<>>, DIFFICULTY, t)
      [] kind = "malformed"     ->
            NoTransactions(PeerBlock(height, tipHash, <<>>, DIFFICULTY, t))

\* the kinds of block a peer announces with NEW_BLOCK
BlockKinds == {"honest", "confirming", "theft", "lowDifficulty", "unsealed", "badHeight",
               "badPoW", "badLink", "ahead", "malformed"}

\* a genesis block of the peer's own making
AltGenesis ==
    mine(Block(0, ZeroHash,
               <<createCoinbase(peerAddress, FPC(GenesisAmount), 0, GenesisTimestamp)>>,
               DIFFICULTY, GenesisTimestamp))

\* a chain of n blocks on the genesis block g, honest blocks the peer mined
\* at the time of the genesis block, except that its last block is of the
\* given kind
RECURSIVE GrowChain(_, _, _)
GrowChain(c, n, kind) ==
    IF Len(c) >= n THEN c
    ELSE GrowChain(Append(c, KindBlock(IF Len(c) + 1 = n THEN kind ELSE "honest",
                                       Len(c), c[Len(c)].hash, GenesisTimestamp, <<>>)),
                   n, kind)

\* the kinds of last block of the chains a peer answers REQUEST_CHAIN with
ChainKinds == {"honest", "unsealed", "badHeight", "badLink", "malformed"}

PeerChains ==
    {GrowChain(<<GENESIS>>, n, kind) : n \in 1..MaxChain, kind \in ChainKinds}
    \cup {GrowChain(<<AltGenesis>>, n, "honest") : n \in 1..MaxChain}

\* the honest chains on the canonical genesis
HonestChains == {GrowChain(<<GENESIS>>, n, "honest") : n \in 1..MaxChain}

\* the chains a CHAIN_RESPONSE is tried with: of a chain that is not longer
\* than the node's the handler reads the length alone, and one chain of
\* each length stands for them
OfferedChains == HonestChains \cup {c \in PeerChains : Len(c) > Len(chain)}

\* ---------------------------------------------------------- serializing
serializeBlock(block) ==
    [height       |-> block.height,
     previousHash |-> block.previousHash,
     timestamp    |-> block.timestamp,
     merkleRoot   |-> block.merkleRoot,
     nonce        |-> block.nonce,
     hash         |-> block.hash,
     difficulty   |-> block.difficulty,
     miningTime   |-> block.miningTime,
     transactions |-> [i \in 1..Len(block.transactions) |->
                          [inputs     |-> block.transactions[i].inputs,
                           outputs    |-> block.transactions[i].outputs,
                           signatures |-> block.transactions[i].signatures,
                           isCoinbase |-> block.transactions[i].isCoinbase,
                           timestamp  |-> block.transactions[i].timestamp,
                           hash       |-> block.transactions[i].hash]]]

\* saveChain(): what JSON.stringify writes to chain.json, the serialized
\* blocks (node.js) or the chain as it is (server.js)
saveChain(c) == IF impl = "node" THEN [i \in 1..Len(c) |-> serializeBlock(c[i])] ELSE c

\* ------------------------------------------------------------------- Init
\* initNode with no stored chain: the canonical genesis is loaded
InitNode ==
    /\ impl \in {"node", "server"}
    /\ running = TRUE
    /\ chain = loadCanonicalGenesis.chain
    /\ utxoSet = loadCanonicalGenesis.utxoSet
    /\ applied = loadCanonicalGenesis.applied
    /\ mempool = <<>>
    /\ now = GenesisTimestamp
    /\ sends = 0
    /\ peerMsgs = 0
    /\ last = Outcome("initNode", "genesis")
    /\ out = <<>>
    /\ ledger = [n \in Nodes |-> loadCanonicalGenesis]
    /\ socks = [c \in Conns |-> "closed"]
    /\ peersOf = [n \in Nodes |-> [c \in Conns |-> NoPeer]]
    /\ wire = [c \in Conns |-> [n \in Nodes |-> <<>>]]
    /\ handshakes = [c \in Conns |-> [n \in Nodes |-> 0]]
    /\ mining = TRUE
    /\ mined = 0
    /\ isMining = FALSE
    /\ miningInterval = "null"
    /\ timers = 0
    /\ round = NoRound
    /\ inbox = <<>>
    /\ chainFile = saveChain(chain)
    /\ dials = <<>>
    /\ relays = <<>>

\* no message has been handled
Init == InitNode /\ msg = NoMessage

\* an exception nothing catches ends the process and its memory with it
Crash(op) ==
    /\ running' = FALSE
    /\ chain' = <<>>
    /\ utxoSet' = <<>>
    /\ mempool' = <<>>
    /\ applied' = <<>>
    /\ last' = Outcome(op, "crashed")
    /\ out' = <<>>
    /\ UNCHANGED <<impl, now, sends>>

\* the ledger becomes st
Adopt(st) ==
    /\ chain' = st.chain
    /\ utxoSet' = st.utxoSet
    /\ applied' = st.applied

\* ------------------------------------------------------------ the sockets
\* the connections of the peers map, in its order, all with readyState OPEN
peers == <<"p", "q">>

\* the connection a peer message arrives on
fromWs == "p"

\* excludeWs = null
null == "null"

\* ws.send(JSON.stringify({type, data, sender}))
send(ws, type, data) == <<[to |-> ws, type |-> type, data |-> data]>>

\* for (const [ws] of peers) if (ws !== excludeWs && ws.readyState === OPEN) ws.send(msg)
broadcast(type, data, excludeWs) ==
    LET open == SelectSeq(peers, LAMBDA ws : ws # excludeWs)
    IN  [i \in 1..Len(open) |-> [to |-> open[i], type |-> type, data |-> data]]

\* if (this.onX) this.onX(arg): the call reaches the observer registered as onX
notify(hook, arg) == <<[to |-> hook, type |-> "callback", data |-> arg]>>

\* ------------------------------------------------------------ addToMempool
\* an admission test that lets every transaction through
addToMempoolNeverThrows(tx, map) == FALSE

\* if (!tx.isCoinbase && !tx.verify(this.utxoSet)) throw new Error('Invalid transaction')
addToMempoolThrows(tx, map) == ~tx.isCoinbase /\ ~verify(tx, map)

\* an admission that also applies the transaction to the UTXO map
addToMempoolSpending(tx) ==
    /\ mempool' = Append(mempool, tx)
    /\ utxoSet' = ProcessTx(utxoSet, tx)
    /\ UNCHANGED <<chain, applied>>

\* this.mempool.push(tx)
addToMempool(tx) ==
    /\ mempool' = Append(mempool, tx)
    /\ UNCHANGED <<chain, utxoSet, applied>>

\* ------------------------------------------------- POST /tx: Wallet.sendTo
\* nodeWallet.sendTo(to, amount), then broadcast(MSG.NEW_TX, tx)
sendTo(recipientAddress, amount) ==
    /\ running
    /\ UNCHANGED netvars
    /\ Len(mempool) < MaxMempool
    /\ sends < MaxSends
    /\ sends' = sends + 1
    /\ msg' = NoMessage
    /\ LET tx == createTransaction(nodeWallet, utxoSet, recipientAddress, amount, now)
       IN  IF InsufficientBalance(nodeWallet, utxoSet, amount)
           THEN /\ last' = Outcome("sendTo", "insufficient")
                /\ out' = <<>>
                /\ UNCHANGED <<chain, utxoSet, applied, mempool>>
           ELSE IF addToMempoolThrows(tx, utxoSet)
           THEN /\ last' = Outcome("sendTo", "invalid")
                /\ out' = <<>>
                /\ UNCHANGED <<chain, utxoSet, applied, mempool>>
           ELSE /\ addToMempool(tx)
                /\ last' = Outcome("sendTo", "mempool")
                /\ out' = notify("onMempoolUpdate", Append(mempool, tx))
                          \o broadcast("NEW_TX", tx, null)
    /\ UNCHANGED <<impl, running, now, peerMsgs, chainFile>>

\* ------------------------------------------------- POST /mine: mineBlock
\* a block that takes the coinbase and leaves the mempool out
blockTxsCoinbaseOnly(coinbase, pool) == <<coinbase>>

\* const txs = [coinbase, ...this.mempool]
blockTxs(coinbase, pool) == <<coinbase>> \o pool

\* mineOneBlock: blockchain.mineBlock(nodeWallet.address), then
\* broadcast(MSG.NEW_BLOCK, ...) of the serialized block (node.js) or of the
\* block itself (server.js)
mineBlock(minerAddress) ==
    /\ running
    /\ UNCHANGED netvars
    /\ Len(chain) < MaxChain
    /\ LET coinbase == createCoinbase(minerAddress, FPC(MINING_REWARD), Len(chain), now)
           txs      == blockTxs(coinbase, mempool)
           prevHash == chain[Len(chain)].hash
           block    == mine(Block(Len(chain), prevHash, txs, DIFFICULTY, now))
       IN  /\ Adopt(PushBlock([chain |-> chain, utxoSet |-> utxoSet, applied |-> applied],
                              block))
           /\ out' = notify("onMempoolUpdate", <<>>) \o notify("onBlockMined", block)
                     \o broadcast("NEW_BLOCK",
                                    IF impl = "node" THEN serializeBlock(block) ELSE block,
                                    null)
    /\ mempool' = <<>>
    /\ last' = Outcome("mineBlock", "mined")
    /\ now' = now + 1
    /\ msg' = NoMessage
    /\ chainFile' = saveChain(chain')
    /\ UNCHANGED <<impl, running, sends, peerMsgs>>

\* ------------------------------------------------------------------ NEW_TX
\* handleNewTx(msg.data): the connection it came on is not passed on, and
\* broadcast(MSG.NEW_TX, txData) excludes no peer
handleNewTxUpTo(txData, maxMsgs) ==
    /\ running
    /\ UNCHANGED netvars
    /\ Len(mempool) < MaxMempool
    /\ peerMsgs < maxMsgs
    /\ peerMsgs' = peerMsgs + 1
    /\ msg' = txData
    /\ IF \E i \in 1..Len(mempool) : mempool[i].hash = txData.hash
       THEN /\ last' = Outcome("handleNewTx", "duplicate")
            /\ out' = <<>>
            /\ UNCHANGED <<chain, utxoSet, applied, mempool>>
       ELSE IF addToMempoolThrows(RebuildTx(txData), utxoSet)
       THEN /\ last' = Outcome("handleNewTx", "rejected")
            /\ out' = <<>>
            /\ UNCHANGED <<chain, utxoSet, applied, mempool>>
       ELSE /\ addToMempool(RebuildTx(txData))
            /\ last' = Outcome("handleNewTx", "accepted")
            /\ out' = notify("onMempoolUpdate", Append(mempool, RebuildTx(txData)))
                      \o broadcast("NEW_TX", txData, null)
    /\ UNCHANGED <<impl, running, now, sends, chainFile>>

\* the handler in a run of up to MaxPeerMsgs messages of peers
handleNewTx(txData) == handleNewTxUpTo(txData, MaxPeerMsgs)

\* --------------------------------------------------------------- NEW_BLOCK
\* a proof-of-work test that lets every block through
PowOkAlways(blockData) == TRUE

\* the proof-of-work test: the hash the data states against the difficulty
\* the data states
PowOk(blockData) == startsWithZeros(blockData.hash, blockData.difficulty)

\* node.js tests the proof of work on the data and then reconstructs the
\* block; server.js reconstructs and then tests
NewBlockThrows(blockData) ==
    IF impl = "node" THEN PowOk(blockData) /\ Malformed(blockData)
    ELSE Malformed(blockData)

\* a test that also takes a block of the node's own next height for one
\* of a peer that is ahead
PeerAheadOrLevel(blockData) == blockData.height >= Len(chain)

\* if (blockData.height > blockchain.chain.length): the peer is ahead
PeerAhead(blockData) == blockData.height > Len(chain)

\* a filter that empties the mempool
removeConfirmedAll(pool, block) == <<>>

\* blockchain.mempool.filter(t => !confirmedHashes.has(t.hash))
removeConfirmed(pool, block) ==
    LET confirmedHashes == {block.transactions[i].hash : i \in 1..Len(block.transactions)}
    IN  SelectSeq(pool, LAMBDA t : t.hash \notin confirmedHashes)

handleNewBlockUpTo(blockData, maxMsgs) ==
    /\ running
    /\ UNCHANGED netvars
    /\ Len(chain) < MaxChain
    /\ peerMsgs < maxMsgs
    /\ peerMsgs' = peerMsgs + 1
    /\ msg' = blockData
    /\ IF blockData.previousHash # chain[Len(chain)].hash
       THEN /\ last' = Outcome("handleNewBlock", "dropped")
            /\ out' = IF PeerAhead(blockData) THEN send(fromWs, "REQUEST_CHAIN", NoMessage)
                      ELSE <<>>
            /\ UNCHANGED <<impl, running, chain, utxoSet, mempool, now, sends, applied>>
       ELSE IF NewBlockThrows(blockData)
       THEN Crash("handleNewBlock")
       ELSE IF ~PowOk(blockData)
       THEN /\ last' = Outcome("handleNewBlock", "rejected")
            /\ out' = <<>>
            /\ UNCHANGED <<impl, running, chain, utxoSet, mempool, now, sends, applied>>
       ELSE LET block == RebuildBlock(blockData)
            IN  /\ Adopt(PushBlock([chain |-> chain, utxoSet |-> utxoSet,
                                    applied |-> applied], block))
                /\ mempool' = removeConfirmed(mempool, block)
                /\ last' = Outcome("handleNewBlock", "accepted")
                /\ out' = broadcast("NEW_BLOCK", blockData, fromWs)
                /\ UNCHANGED <<impl, running, now, sends>>
    /\ chainFile' = IF last'.result = "accepted" THEN saveChain(chain') ELSE chainFile

\* the handler in a run of up to MaxPeerMsgs messages of peers
handleNewBlock(blockData) == handleNewBlockUpTo(blockData, MaxPeerMsgs)

\* ---------------------------------------------------------- CHAIN_RESPONSE
\* node.js: the first rebuildChainFromData is called with a temporary
\* Blockchain as `this`, but the function pushes onto the module's own
\* blockchain; an exception is caught and logged.  When the first pass
\* succeeds the chain and the UTXO map are emptied and rebuilt.
\* server.js: emptied and rebuilt, and nothing catches an exception.
handleChainResponse(chainData) ==
    /\ running
    /\ UNCHANGED netvars
    /\ peerMsgs < MaxPeerMsgs
    /\ peerMsgs' = peerMsgs + 1
    /\ msg' = chainData
    /\ IF Len(chainData) <= Len(chain)
       THEN /\ last' = Outcome("handleChainResponse", "ignored")
            /\ out' = <<>>
            /\ UNCHANGED <<impl, running, chain, utxoSet, mempool, now, sends, applied>>
       ELSE LET pass1 == rebuildChainFromData(
                             [chain |-> chain, utxoSet |-> utxoSet,
                              applied |-> applied, ok |-> TRUE], chainData)
                fresh == rebuildChainFromData(ResetLedger, chainData)
            IN  IF impl = "node" /\ ~pass1.ok
                THEN /\ Adopt(pass1)
                     /\ last' = Outcome("handleChainResponse", "failed")
                     /\ out' = <<>>
                     /\ UNCHANGED <<impl, running, mempool, now, sends>>
                ELSE IF ~fresh.ok
                THEN Crash("handleChainResponse")
                ELSE /\ Adopt(fresh)
                     /\ last' = Outcome("handleChainResponse", "replaced")
                     /\ out' = <<>>
                     /\ UNCHANGED <<impl, running, mempool, now, sends>>
    /\ chainFile' = IF last'.result = "replaced" THEN saveChain(chain') ELSE chainFile

\* ------------------------------------------------------------------- Next
\* continuous mining is not started, the thread takes each request and each
\* message as it comes
Next ==
    \/ sendTo(peerAddress, FPC(20)) /\ UNCHANGED loopvars
    \/ sendTo(peerAddress, FPC(30)) /\ UNCHANGED loopvars
    \/ sendTo(peerAddress, FPC(20) + 4) /\ UNCHANGED loopvars
    \/ mineBlock(nodeWallet.address) /\ UNCHANGED loopvars
    \/ \E txData \in PeerTxs : handleNewTx(txData) /\ UNCHANGED loopvars
    \/ \E kind \in BlockKinds :
          /\ handleNewBlock(KindBlock(kind, Len(chain), chain[Len(chain)].hash, now, mempool))
          /\ UNCHANGED loopvars
    \/ \E chainData \in OfferedChains : handleChainResponse(chainData) /\ UNCHANGED loopvars

Spec == Init /\ [][Next]_vars

\* ------------------------------------- the node with no block received
\* the node as payments and mining alone drive it: POST /tx, the
\* transactions of other wallets that addToMempool is called with, and
\* POST /mine
LocalNext ==
    \/ sendTo(peerAddress, FPC(20)) /\ UNCHANGED loopvars
    \/ sendTo(peerAddress, FPC(30)) /\ UNCHANGED loopvars
    \/ sendTo(peerAddress, FPC(20) + 4) /\ UNCHANGED loopvars
    \/ \E txData \in PeerTxs : handleNewTx(txData) /\ UNCHANGED loopvars
    \/ mineBlock(nodeWallet.address) /\ UNCHANGED loopvars

LocalSpec == Init /\ [][LocalNext]_vars

\* ------------------------------------------------- the relay of one node
\* the loop variables a relay step leaves as they are
RelayFrame == UNCHANGED <<isMining, miningInterval, timers, round, inbox, dials>>

\* the messages of the given type among those the handler sent to peers
\* in this step: what broadcast() in handleNewTx or handleNewBlock sent
Relayed(sent, type) ==
    IF \E i \in 1..Len(sent) : sent[i].type = type
    THEN <<[type |-> type, data |-> sent[CHOOSE i \in 1..Len(sent) : sent[i].type = type].data]>>
    ELSE <<>>

\* a NEW_TX of a peer arrives
onNewTx(txData) ==
    /\ handleNewTxUpTo(txData, MaxRelayMsgs)
    /\ relays' = relays \o Relayed(out', "NEW_TX")
    /\ RelayFrame

\* a NEW_BLOCK of a peer arrives
onNewBlock(blockData) ==
    /\ handleNewBlockUpTo(blockData, MaxRelayMsgs)
    /\ relays' = relays \o Relayed(out', "NEW_BLOCK")
    /\ RelayFrame

\* the peers that were sent relays[k] pass it on in their turn, and it
\* comes back to the node: a NEW_TX from the peer it was sent to, whose
\* broadcast excludes nobody, a NEW_BLOCK by way of a third node
echoNewTx(k) ==
    /\ relays[k].type = "NEW_TX"
    /\ onNewTx(relays[k].data)

echoNewBlock(k) ==
    /\ relays[k].type = "NEW_BLOCK"
    /\ onNewBlock(relays[k].data)

\* the node pays, mines, and receives and relays what peers announce and
\* what comes back of its own relays, in any order
RelayNext ==
    \/ sendTo(peerAddress, FPC(20)) /\ UNCHANGED loopvars
    \/ mineBlock(nodeWallet.address) /\ UNCHANGED loopvars
    \/ \E txData \in PeerTxs : onNewTx(txData)
    \/ \E kind \in {"honest", "confirming"} :
          onNewBlock(KindBlock(kind, Len(chain), chain[Len(chain)].hash, now, mempool))
    \/ \E k \in 1..Len(relays) : echoNewTx(k)
    \/ \E k \in 1..Len(relays) : echoNewBlock(k)

RelaySpec == Init /\ [][RelayNext]_vars

\* ------------------------------------------- payments of any amount
\* POST /tx passes data.amount to sendTo as it came: a positive amount,
\* zero or a negative one, to the peer or to the founder
AmountNext ==
    \/ sendTo(peerAddress, FPC(20)) /\ UNCHANGED loopvars
    \/ sendTo(peerAddress, 0) /\ UNCHANGED loopvars
    \/ sendTo(peerAddress, 0 - FPC(10)) /\ UNCHANGED loopvars
    \/ sendTo(founderAddress, 0 - FPC(20)) /\ UNCHANGED loopvars
    \/ mineBlock(nodeWallet.address) /\ UNCHANGED loopvars

AmountSpec == Init /\ [][AmountNext]_vars

\* ------------------------------------------------------------ a restart
\* The process ends and is started again: initNode finds chain.json and
\* rebuilds the chain from it on the empty ledger of the new process; when
\* that throws, loadCanonicalGenesis pushes the genesis block onto what the
\* failed load left; then saveChain().  The mempool was in memory only.
restart ==
    /\ LET loaded == rebuildChainFromData(EmptyLedger, chainFile)
           st     == IF loaded.ok THEN loaded
                     ELSE PushBlock([loaded EXCEPT !.ok = TRUE], GENESIS)
       IN  /\ Adopt(st)
           /\ chainFile' = saveChain(st.chain)
    /\ running' = TRUE
    /\ mempool' = <<>>
    /\ last' = Outcome("initNode", "restarted")
    /\ msg' = NoMessage
    /\ out' = <<>>
    /\ UNCHANGED <<impl, now, sends, peerMsgs>>
    /\ UNCHANGED netvars
    /\ UNCHANGED loopvars

\* the node of Spec, stopped and started again at any moment
RestartNext ==
    \/ Next
    \/ restart

RestartSpec == Init /\ [][RestartNext]_vars

\* ------------------------------------------------- a damaged chain.json
\* a file JSON.parse throws on: the throw is inside the try of initNode, as
\* is the throw of rebuildChainFromData on a first block without
\* transactions, and nothing has been pushed when it happens
UnparseableFile == <<[text |-> "not JSON"]>>

\* the stored chain cannot be loaded
CannotLoad(file) == \E k \in 1..Len(file) : Malformed(file[k])

\* chain.json is damaged on the disk: it no longer parses, or the block at
\* position k has lost its transactions; it happens while the clock is
\* within MaxChain of its start
damageFile ==
    /\ ~CannotLoad(chainFile)
    /\ now < GenesisTimestamp + MaxChain
    /\ \/ chainFile' = UnparseableFile
       \/ \E k \in 1..Len(chainFile) :
             chainFile' = [chainFile EXCEPT ![k] = NoTransactions(chainFile[k])]
    /\ UNCHANGED <<impl, running, chain, utxoSet, mempool, now, sends, peerMsgs, applied,
                   last, msg, out>>
    /\ UNCHANGED netvars
    /\ UNCHANGED loopvars

\* a node that pays and mines, whose file may be damaged and which is
\* stopped and started again at any moment
DamageNext ==
    \/ sendTo(peerAddress, FPC(20)) /\ UNCHANGED loopvars
    \/ mineBlock(nodeWallet.address) /\ UNCHANGED loopvars
    \/ restart
    \/ damageFile

DamageSpec == Init /\ [][DamageNext]_vars

\* ======================================================================
\* validateChain
\* ======================================================================
\* for (let i = 1; i < chain.length; i++): the four checks of block i in
\* their order, the first that fails is returned with i; c[i + 1] is
\* this.chain[i]
RECURSIVE validateFrom(_, _)
validateFrom(c, i) ==
    IF ~(i < Len(c)) THEN [valid |-> TRUE]
    ELSE LET block == c[i + 1]
             prev  == c[i]
         IN  IF block.previousHash # prev.hash
             THEN [valid |-> FALSE, block |-> i, reason |-> "broken hash link"]
             ELSE IF ~startsWithZeros(block.hash, block.difficulty)
             THEN [valid |-> FALSE, block |-> i, reason |-> "invalid PoW"]
             ELSE IF sha256(getHeaderString(block)) # block.hash
             THEN [valid |-> FALSE, block |-> i, reason |-> "hash mismatch"]
             ELSE IF computeRoot([k \in 1..Len(block.transactions) |->
                                     block.transactions[k].hash]) # block.merkleRoot
             THEN [valid |-> FALSE, block |-> i, reason |-> "merkle mismatch"]
             ELSE validateFrom(c, i + 1)

\* a loop that leaves the Merkle root of each block unchecked
RECURSIVE validateFromNoMerkle(_, _)
validateFromNoMerkle(c, i) ==
    IF ~(i < Len(c)) THEN [valid |-> TRUE]
    ELSE LET block == c[i + 1]
             prev  == c[i]
         IN  IF block.previousHash # prev.hash
             THEN [valid |-> FALSE, block |-> i, reason |-> "broken hash link"]
             ELSE IF ~startsWithZeros(block.hash, block.difficulty)
             THEN [valid |-> FALSE, block |-> i, reason |-> "invalid PoW"]
             ELSE IF sha256(getHeaderString(block)) # block.hash
             THEN [valid |-> FALSE, block |-> i, reason |-> "hash mismatch"]
             ELSE validateFromNoMerkle(c, i + 1)

validateChainNoMerkle(c) == validateFromNoMerkle(c, 1)

validateChain(c) == validateFrom(c, 1)

\* what a peer can get wrong in a block it puts in a chain
Defects == {"link", "pow", "digest", "merkle", "content"}

\* the header hashed with the first nonce whose digest misses the target
RECURSIVE hashShort(_)
hashShort(b) ==
    LET n == [b EXCEPT !.nonce = b.nonce + 1]
        m == [n EXCEPT !.hash = sha256(getHeaderString(n))]
    IN  IF ~startsWithZeros(m.hash, m.difficulty) THEN m ELSE hashShort(m)

\* the block a peer makes at time t for position height on tipHash with the
\* defects of D: on another previous hash, sealed with a digest short of the
\* target, carrying a hash that is not its digest, with a coinbase that was
\* replaced after the Merkle root was taken, and with a coinbase whose
\* amount was changed while its hash field was left as it was
DefectBlock(D, height, tipHash, t) ==
    LET raw    == Block(height, IF "link" \in D THEN ForgedHash(DIFFICULTY) ELSE tipHash,
                        <<createCoinbase(peerAddress, FPC(MINING_REWARD), height, t)>>,
                        DIFFICULTY, t)
        sealed == IF "pow" \in D THEN hashShort(raw) ELSE mine(raw)
        hashed == IF "digest" \in D
                  THEN [sealed EXCEPT !.hash = ForgedHash(IF "pow" \in D THEN DIFFICULTY - 1
                                                          ELSE DIFFICULTY)]
                  ELSE sealed
        rooted == IF "merkle" \in D
                  THEN [hashed EXCEPT !.transactions =
                           <<createCoinbase(peerAddress, FPC(2 * MINING_REWARD), height, t)>>]
                  ELSE hashed
    IN  IF "content" \in D
        THEN [rooted EXCEPT !.transactions[1].outputs[1].amount = FPC(3 * MINING_REWARD)]
        ELSE rooted

\* the chains of one or two such blocks on the canonical genesis, as a
\* CHAIN_RESPONSE carries them
DefectChains ==
    {<<GENESIS, serializeBlock(DefectBlock(D, 1, GENESIS.hash, GenesisTimestamp))>> :
        D \in SUBSET Defects}
    \cup {LET first == DefectBlock(D, 1, GENESIS.hash, GenesisTimestamp)
          IN  <<GENESIS, serializeBlock(first),
                serializeBlock(DefectBlock(E, 2, first.hash, GenesisTimestamp))>> :
             D \in SUBSET Defects, E \in SUBSET Defects}

\* the chains a CHAIN_RESPONSE is tried with: the handler drops a chain
\* that is not longer than the node's on its length alone
OfferedDefectChains == {c \in DefectChains : Len(c) > Len(chain)}

\* blockchain.validateChain() is called and its result returned to the
\* caller
callValidateChain ==
    /\ running
    /\ LET r == validateChain(chain)
       IN  /\ last' = Outcome("validateChain", IF r.valid THEN "valid" ELSE r.reason)
           /\ out' = <<[to |-> "caller", type |-> "RESULT", data |-> r]>>
    /\ msg' = NoMessage
    /\ UNCHANGED <<impl, running, chain, utxoSet, mempool, now, sends, peerMsgs, applied,
                   chainFile>>
    /\ UNCHANGED netvars
    /\ UNCHANGED loopvars

\* a node that takes the chain a peer answers with, mines on it, and is
\* asked whether its chain is valid
ValidateNext ==
    \/ \E chainData \in OfferedDefectChains :
          handleChainResponse(chainData) /\ UNCHANGED loopvars
    \/ mineBlock(nodeWallet.address) /\ UNCHANGED loopvars
    \/ callValidateChain

ValidateSpec == Init /\ [][ValidateNext]_vars

\* ======================================================================
\* Merkle proofs
\* ======================================================================
\* the hash of a transaction named k
Leaf(k) == sha256(<<"tx", k>>)

\* the lists of leaf hashes: every list of one to MaxLeaves hashes of three
\* transactions, and the lists of one to MaxLeaves different hashes
LeafLists ==
    UNION {[1..n -> {Leaf(1), Leaf(2), Leaf(3)}] : n \in 1..MaxLeaves}
    \cup {[k \in 1..n |-> Leaf(k)] : n \in 1..MaxLeaves}

\* the node as it starts, and in msg the list of hashes a caller has
MerkleInit == InitNode /\ msg \in LeafLists

\* the caller takes the root of its hashes and the proof of the hash at
\* index, and verifies the proof against the root
proveAndVerify(index) ==
    /\ running
    /\ LET root  == computeRoot(msg)
           proof == getProof(msg, index)
           ok    == verifyProof(msg[index + 1], proof, root)
       IN  /\ last' = Outcome("verifyProof", IF ok THEN "true" ELSE "false")
           /\ out' = <<[to |-> "caller", type |-> "RESULT",
                        data |-> [index |-> index, root |-> root, proof |-> proof]]>>
    /\ UNCHANGED <<impl, running, chain, utxoSet, mempool, now, sends, peerMsgs, applied,
                   msg, chainFile>>
    /\ UNCHANGED netvars
    /\ UNCHANGED loopvars

MerkleNext == \E index \in 0..(Len(msg) - 1) : proveAndVerify(index)

MerkleSpec == MerkleInit /\ [][MerkleNext]_vars

\* ======================================================================
\* Block.mine, one iteration at a time
\* ======================================================================
\* in this abstraction of sha256 a target of up to DIFFICULTY + 1 zeros is
\* met by some nonce
AchievableDifficulties == 0..(DIFFICULTY + 1)

\* new Block(height, previousHash, [coinbase], difficulty) at time t, and
\* mine() is entered: msg is the block, out the block as it was constructed
enterMine(height, difficulty, t) ==
    /\ running
    /\ last.result # "searching"
    /\ LET block == Block(height, IF height = 0 THEN ZeroHash ELSE chain[Len(chain)].hash,
                          <<createCoinbase(nodeWallet.address, FPC(MINING_REWARD), height, t)>>,
                          difficulty, t)
       IN  /\ msg' = block
           /\ out' = <<[to |-> "caller", type |-> "BLOCK", data |-> block]>>
    /\ last' = Outcome("mine", "searching")
    /\ UNCHANGED <<impl, running, chain, utxoSet, mempool, now, sends, peerMsgs, applied,
                   chainFile>>
    /\ UNCHANGED netvars
    /\ UNCHANGED loopvars

\* a loop that is left one zero short of the target
mineAgainShort(hash, difficulty) == ~startsWithZeros(hash, difficulty - 1)

\* while (!this.hash.startsWith(target))
mineAgain(hash, difficulty) == ~startsWithZeros(hash, difficulty)

\* one pass of the do-while: nonce++, hash = sha256(header); mine() returns
\* when the hash starts with the target
mineIterate ==
    /\ running
    /\ last = Outcome("mine", "searching")
    /\ LET n == [msg EXCEPT !.nonce = msg.nonce + 1]
           m == [n EXCEPT !.hash = sha256(getHeaderString(n))]
       IN  /\ msg' = m
           /\ last' = IF mineAgain(m.hash, m.difficulty) THEN last
                      ELSE Outcome("mine", "returned")
    /\ UNCHANGED <<impl, running, chain, utxoSet, mempool, now, sends, peerMsgs, applied,
                   out, chainFile>>
    /\ UNCHANGED netvars
    /\ UNCHANGED loopvars

MineNext ==
    \/ \E height \in 0..MaxChain : \E difficulty \in AchievableDifficulties :
          \E t \in GenesisTimestamp..(GenesisTimestamp + MaxMined) :
             enterMine(height, difficulty, t)
    \/ mineIterate

MineSpec == Init /\ [][MineNext]_vars

\* the loop has the thread until it returns: an iteration that can be made
\* is made
FairMineSpec == MineSpec /\ WF_vars(mineIterate)

\* ======================================================================
\* Peer discovery of one node
\* ======================================================================
\* `ws://localhost:${P2P_PORT}` of the node, and the addresses of two others
selfAddress == "ws://localhost:6001"
OtherAddresses == {"ws://localhost:6002", "ws://localhost:6003"}

\* for (const [, info] of peers) if (info.address === address) return true:
\* a socket is in the peers map from its 'open' event on
isPeerConnectedIn(ds, address) ==
    \E k \in 1..Len(ds) : ds[k].state = "open" /\ ds[k].address = address

\* connectToPeer(address) up to its return: new WebSocket(address) and the
\* registration of its callbacks
connectToPeerIn(ds, address) ==
    IF isPeerConnectedIn(ds, address) THEN ds
    ELSE Append(ds, [address |-> address, state |-> "connecting"])

\* for (const addr of msg.data) if (addr !== self && !isPeerConnected(addr))
\* connectToPeer(addr)
RECURSIVE connectAll(_, _)
connectAll(ds, list) ==
    IF Len(list) = 0 THEN ds
    ELSE connectAll(IF list[1] # selfAddress /\ ~isPeerConnectedIn(ds, list[1])
                    THEN connectToPeerIn(ds, list[1])
                    ELSE ds,
                    Tail(list))

\* what the discovery leaves as it is
DiscoveryFrame ==
    /\ UNCHANGED <<impl, running, chain, utxoSet, mempool, now, sends, peerMsgs, applied,
                   chainFile>>
    /\ UNCHANGED <<isMining, miningInterval, timers, round, inbox, relays>>
    /\ UNCHANGED netvars

\* case MSG.PEER_LIST with an array as data
recvPeerList(list) ==
    /\ running
    /\ Len(dials) + Len(list) <= MaxDials
    /\ dials' = connectAll(dials, list)
    /\ last' = Outcome("handleMessage", "PEER_LIST")
    /\ msg' = list
    /\ out' = <<>>
    /\ DiscoveryFrame

\* POST /peers/add with an address
peersAdd(address) ==
    /\ running
    /\ Len(dials) < MaxDials
    /\ dials' = connectToPeerIn(dials, address)
    /\ last' = Outcome("peersAdd", "Connecting")
    /\ msg' = <<address>>
    /\ out' = <<>>
    /\ DiscoveryFrame

\* ws.on('open') of socket k: peers.set(ws, { address }) and the HANDSHAKE
dialOpen(k) ==
    /\ running
    /\ dials[k].state = "connecting"
    /\ dials' = [dials EXCEPT ![k].state = "open"]
    /\ last' = Outcome("open", "HANDSHAKE")
    /\ msg' = NoMessage
    /\ out' = send(dials[k].address, "HANDSHAKE", [chainLength |-> Len(chain)])
    /\ DiscoveryFrame

\* ws.on('close') or ws.on('error') of socket k: peers.delete(ws)
dialClose(k) ==
    /\ running
    /\ dials' = [i \in 1..(Len(dials) - 1) |-> IF i < k THEN dials[i] ELSE dials[i + 1]]
    /\ last' = Outcome("close", "deleted")
    /\ msg' = NoMessage
    /\ out' = <<>>
    /\ DiscoveryFrame

\* the lists of up to two addresses a peer advertises
PeerLists ==
    UNION {[1..n -> OtherAddresses \cup {selfAddress}] : n \in 1..2}

DiscoveryNext ==
    \/ \E list \in PeerLists : recvPeerList(list)
    \/ \E address \in OtherAddresses : peersAdd(address)
    \/ \E k \in 1..Len(dials) : dialOpen(k)
    \/ \E k \in 1..Len(dials) : dialClose(k)

DiscoverySpec == Init /\ [][DiscoveryNext]_vars

\* ======================================================================
\* The event loop of one node
\* ======================================================================
\* One JavaScript thread runs the HTTP handlers, the WebSocket handlers and
\* the timeouts, each to its end.  Block.mine() is a do-while loop called
\* from mineBlock: from its first iteration to its last the thread is in
\* that call, and whatever arrives meanwhile waits.

\* what the mining controls leave as it is
LoopFrame ==
    /\ UNCHANGED <<impl, running, chain, utxoSet, mempool, now, sends, peerMsgs, applied,
                   msg, out, chainFile, dials, relays>>
    /\ UNCHANGED netvars

\* mineOneBlock() called by `by`, up to the call of block.mine() for the
\* next height
beginRound(by) == round' = [by |-> by, height |-> Len(chain)]

\* a test that never finds mining active
alreadyMiningNever == FALSE

\* if (isMining) return, of startMining
alreadyMining == isMining

\* POST /mine/start, or the timeout of AUTO_MINE: startMining(), whose
\* mineLoop() enters its first round at once
startMining ==
    /\ running
    /\ round = NoRound
    /\ alreadyMining \/ Len(chain) < MaxChain
    /\ IF alreadyMining
       THEN /\ last' = Outcome("startMining", "already")
            /\ UNCHANGED loopvars
       ELSE /\ isMining' = TRUE
            /\ beginRound("mineLoop")
            /\ last' = Outcome("startMining", "started")
            /\ UNCHANGED <<miningInterval, timers, inbox>>
    /\ LoopFrame

\* POST /mine/stop: stopMining() clears the timeout miningInterval names;
\* node.js sets miningInterval to null, server.js leaves the stale timer
stopMiningLoop ==
    /\ running
    /\ round = NoRound
    /\ isMining' = FALSE
    /\ timers' = IF miningInterval = "pending" THEN timers - 1 ELSE timers
    /\ miningInterval' = IF impl = "node" \/ miningInterval = "null" THEN "null"
                         ELSE "stale"
    /\ last' = Outcome("stopMining", "stopped")
    /\ UNCHANGED <<round, inbox>>
    /\ LoopFrame

\* POST /mine: 'Already mining' when isMining, else mineOneBlock()
postMine ==
    /\ running
    /\ round = NoRound
    /\ isMining \/ Len(chain) < MaxChain
    /\ IF isMining
       THEN /\ last' = Outcome("POST /mine", "Already mining")
            /\ UNCHANGED loopvars
       ELSE /\ beginRound("POST /mine")
            /\ last' = Outcome("POST /mine", "mining")
            /\ UNCHANGED <<isMining, miningInterval, timers, inbox>>
    /\ LoopFrame

\* a timeout of mineLoop fires, the one miningInterval names or another:
\* if (!isMining) return; mineOneBlock()
mineLoop ==
    /\ running
    /\ round = NoRound
    /\ timers > 0
    /\ ~isMining \/ Len(chain) < MaxChain
    /\ timers' = timers - 1
    /\ \E named \in BOOLEAN :
          /\ named => miningInterval = "pending"
          /\ ~named => timers > (IF miningInterval = "pending" THEN 1 ELSE 0)
          /\ miningInterval' = IF named THEN "stale" ELSE miningInterval
    /\ IF ~isMining
       THEN /\ last' = Outcome("mineLoop", "stopped")
            /\ UNCHANGED round
       ELSE /\ beginRound("mineLoop")
            /\ last' = Outcome("mineLoop", "mining")
    /\ UNCHANGED <<isMining, inbox>>
    /\ LoopFrame

\* block.mine() returns: the rest of mineBlock and of mineOneBlock, and in
\* mineLoop miningInterval = setTimeout(mineLoop, 100)
blockMined ==
    /\ round # NoRound
    /\ mineBlock(nodeWallet.address)
    /\ round' = NoRound
    /\ IF round.by = "mineLoop"
       THEN /\ timers' = timers + 1
            /\ miningInterval' = "pending"
       ELSE UNCHANGED <<timers, miningInterval>>
    /\ UNCHANGED <<isMining, inbox, dials, relays>>

\* a NEW_BLOCK reaches the socket: the block a peer mined on the tip the
\* node has, for the height the node mines next
arrive ==
    /\ running
    /\ Len(chain) < MaxChain
    /\ Len(inbox) + peerMsgs < MaxPeerMsgs
    /\ inbox' = Append(inbox, KindBlock("honest", Len(chain), chain[Len(chain)].hash,
                                       now, mempool))
    /\ UNCHANGED <<isMining, miningInterval, timers, round, last>>
    /\ LoopFrame

\* ws.on('message'): the thread, free, takes the message that waited longest
onMessage ==
    /\ round = NoRound
    /\ inbox # <<>>
    /\ handleNewBlock(Head(inbox))
    /\ inbox' = Tail(inbox)
    /\ UNCHANGED <<isMining, miningInterval, timers, round, dials, relays>>

LoopNext ==
    \/ startMining
    \/ stopMiningLoop
    \/ postMine
    \/ mineLoop
    \/ blockMined
    \/ arrive
    \/ onMessage

LoopSpec == Init /\ [][LoopNext]_vars

\* ======================================================================
\* A network of two nodes
\* ======================================================================
\* Two processes of the same program, each with the canonical genesis and a
\* wallet of its own.  No transfer is submitted in this network, so every
\* block holds its coinbase only and every mempool stays empty.

Dialer(c) == c[1]

Listener(c) == c[2]

\* the node at the other end of connection c
Peer(c, n) == IF n = c[1] THEN c[2] ELSE c[1]

\* `ws://localhost:${P2P_PORT}`: a node is named by its address
NodeAddress(n) == n

\* new Wallet() of initNode
netWallet(n) == Wallet(<<n, "private-key">>)

\* peers.set(ws, { address: 'incoming', lastSeen }) of wss.on('connection')
IncomingPeer == [address |-> "incoming", handshakeDone |-> FALSE, chainLength |-> 0]

\* peers.set(ws, { address, lastSeen }) of ws.on('open')
DialedPeer(address) == [address |-> address, handshakeDone |-> FALSE, chainLength |-> 0]

\* JSON.stringify({ type, data, sender }): the text on the wire, the type first
Message(n, type, data) == <<type, data, NodeAddress(n)>>

\* msg.type, msg.data and msg.sender of JSON.parse(raw)
msgType(m) == m[1]

msgData(m) == m[2]

msgSender(m) == m[3]

\* for (const [, info] of peers) if (info.address === address) return true
isPeerConnected(n, address) ==
    \E c \in Conns : n \in {c[1], c[2]} /\ peersOf[n][c].address = address

\* the connections of the peers map of n, all with readyState OPEN
Sockets(n) == {c \in Conns : n \in {c[1], c[2]} /\ peersOf[n][c] # NoPeer}

\* wire after node n has sent m on every connection of cs
Broadcast(w, n, cs, m) ==
    [c \in Conns |->
        IF c \in cs THEN [w[c] EXCEPT ![Peer(c, n)] = Append(@, m)] ELSE w[c]]

\* the next message node n receives on connection c has this type
Receives(c, n, type) ==
    /\ ledger[n].ok
    /\ n \in {c[1], c[2]}
    /\ n = Dialer(c) => socks[c] = "open"
    /\ wire[c][n] # <<>>
    /\ msgType(Head(wire[c][n])) = type

\* the variables of the single node keep their initial values
NodeVars == <<running, chain, utxoSet, mempool, sends, peerMsgs, applied, last, msg, out,
             isMining, miningInterval, timers, round, inbox, chainFile, dials, relays>>

\* connectToPeer(address) of the dialer up to new WebSocket(address), and the
\* 'connection' event of the listener
connectToPeer(c) ==
    /\ socks[c] = "closed"
    /\ ledger[Dialer(c)].ok /\ ledger[Listener(c)].ok
    /\ ~isPeerConnected(Dialer(c), NodeAddress(Listener(c)))
    /\ socks' = [socks EXCEPT ![c] = "accepted"]
    /\ peersOf' = [peersOf EXCEPT ![Listener(c)][c] = IncomingPeer]
    /\ UNCHANGED <<impl, now, ledger, wire, handshakes, mining, mined>>
    /\ UNCHANGED NodeVars

\* ws.on('open') of the dialer: the peer is recorded and greeted
open(c) ==
    LET d == Dialer(c)
    IN  /\ socks[c] = "accepted"
        /\ ledger[d].ok
        /\ socks' = [socks EXCEPT ![c] = "open"]
        /\ peersOf' = [peersOf EXCEPT ![d][c] = DialedPeer(NodeAddress(Listener(c)))]
        /\ wire' = Broadcast(wire, d, {c},
                             Message(d, "HANDSHAKE", [chainLength |-> Len(ledger[d].chain)]))
        /\ handshakes' = [handshakes EXCEPT ![c][d] = @ + 1]
        /\ UNCHANGED <<impl, now, ledger, mining, mined>>
        /\ UNCHANGED NodeVars

\* a test that takes every peer for one not yet greeted
alreadyHandshookNever(existingPeer) == FALSE

\* const alreadyHandshook = existingPeer && existingPeer.handshakeDone
alreadyHandshook(existingPeer) == existingPeer # NoPeer /\ existingPeer.handshakeDone

\* a test that never finds the peer's chain longer
LongerChainNever(chainLength, localChain) == FALSE

\* if (msg.data?.chainLength > blockchain.chain.length)
LongerChain(chainLength, localChain) == chainLength > Len(localChain)

\* case MSG.HANDSHAKE
recvHandshake(c, n) ==
    /\ Receives(c, n, "HANDSHAKE")
    /\ LET m       == Head(wire[c][n])
           reply   == IF alreadyHandshook(peersOf[n][c]) THEN <<>>
                      ELSE <<Message(n, "HANDSHAKE",
                                     [chainLength |-> Len(ledger[n].chain)])>>
           request == IF LongerChain(msgData(m).chainLength, ledger[n].chain)
                      THEN <<Message(n, "REQUEST_CHAIN", NoMessage)>>
                      ELSE <<>>
       IN  /\ peersOf' = [peersOf EXCEPT ![n][c] =
                             [address |-> msgSender(m), handshakeDone |-> TRUE,
                              chainLength |-> msgData(m).chainLength]]
           /\ wire' = [wire EXCEPT ![c][n] = Tail(@),
                                   ![c][Peer(c, n)] = @ \o reply \o request]
           /\ handshakes' = [handshakes EXCEPT ![c][n] = @ + Len(reply)]
    /\ UNCHANGED <<impl, now, ledger, socks, mining, mined>>
    /\ UNCHANGED NodeVars

\* case MSG.REQUEST_CHAIN: node.js answers with the serialized blocks,
\* server.js with the blocks
recvRequestChain(c, n) ==
    /\ Receives(c, n, "REQUEST_CHAIN")
    /\ LET localChain == ledger[n].chain
           data == IF impl = "node"
                   THEN [i \in 1..Len(localChain) |-> serializeBlock(localChain[i])]
                   ELSE localChain
       IN  wire' = [wire EXCEPT ![c][n] = Tail(@),
                                ![c][Peer(c, n)] = Append(@, Message(n, "CHAIN_RESPONSE", data))]
    /\ UNCHANGED <<impl, now, ledger, socks, peersOf, handshakes, mining, mined>>
    /\ UNCHANGED NodeVars

\* handleChainResponse on the ledger st of a node
ChainResponseLedger(st, chainData) ==
    IF Len(chainData) <= Len(st.chain) THEN st
    ELSE LET pass1 == rebuildChainFromData(st, chainData)
             fresh == rebuildChainFromData(ResetLedger, chainData)
         IN  IF impl = "node" /\ ~pass1.ok THEN [pass1 EXCEPT !.ok = TRUE]
             ELSE fresh

\* case MSG.CHAIN_RESPONSE
recvChainResponse(c, n) ==
    /\ Receives(c, n, "CHAIN_RESPONSE")
    /\ wire' = [wire EXCEPT ![c][n] = Tail(@)]
    /\ ledger' = [ledger EXCEPT ![n] = ChainResponseLedger(@, msgData(Head(wire[c][n])))]
    /\ UNCHANGED <<impl, now, socks, peersOf, handshakes, mining, mined>>
    /\ UNCHANGED NodeVars

\* handleNewBlock on the ledger st of a node: the ledger after it, whether
\* the block is passed on and whether the chain is requested
NewBlockLedger(st, blockData) ==
    IF blockData.previousHash # st.chain[Len(st.chain)].hash
    THEN [ledger |-> st, relay |-> FALSE, request |-> blockData.height > Len(st.chain)]
    ELSE IF Malformed(blockData) /\ (impl = "server" \/ PowOk(blockData))
    THEN [ledger |-> [st EXCEPT !.ok = FALSE], relay |-> FALSE, request |-> FALSE]
    ELSE IF ~PowOk(blockData)
    THEN [ledger |-> st, relay |-> FALSE, request |-> FALSE]
    ELSE [ledger |-> PushBlock(st, RebuildBlock(blockData)), relay |-> TRUE,
          request |-> FALSE]

\* case MSG.NEW_BLOCK: handleNewBlock(msg.data, ws)
recvNewBlock(c, n) ==
    /\ Receives(c, n, "NEW_BLOCK")
    /\ LET blockData == msgData(Head(wire[c][n]))
           r         == NewBlockLedger(ledger[n], blockData)
           taken     == [wire EXCEPT ![c][n] = Tail(@)]
       IN  /\ ledger' = [ledger EXCEPT ![n] = r.ledger]
           /\ wire' = IF r.request
                      THEN Broadcast(taken, n, {c}, Message(n, "REQUEST_CHAIN", NoMessage))
                      ELSE IF r.relay
                      THEN Broadcast(taken, n, Sockets(n) \ {c},
                                     Message(n, "NEW_BLOCK", blockData))
                      ELSE taken
    /\ UNCHANGED <<impl, now, socks, peersOf, handshakes, mining, mined>>
    /\ UNCHANGED NodeVars

\* mineOneBlock of node n, in the millisecond the network started in
netMine(n) ==
    /\ mining
    /\ ledger[n].ok
    /\ mined < MaxMined
    /\ mined' = mined + 1
    /\ LET localChain == ledger[n].chain
           coinbase   == createCoinbase(netWallet(n).address, FPC(MINING_REWARD),
                                        Len(localChain), now)
           block      == mine(Block(Len(localChain), localChain[Len(localChain)].hash,
                                    <<coinbase>>, DIFFICULTY, now))
       IN  /\ ledger' = [ledger EXCEPT ![n] = PushBlock(@, block)]
           /\ wire' = Broadcast(wire, n, Sockets(n),
                                Message(n, "NEW_BLOCK",
                                        IF impl = "node" THEN serializeBlock(block)
                                        ELSE block))
    /\ UNCHANGED <<impl, now, socks, peersOf, handshakes, mining>>
    /\ UNCHANGED NodeVars

\* stopMining, on both nodes: no block is mined from here on
stopMining ==
    /\ mining
    /\ mining' = FALSE
    /\ UNCHANGED <<impl, now, ledger, socks, peersOf, wire, handshakes, mined>>
    /\ UNCHANGED NodeVars

NetNext ==
    \/ \E c \in Conns : connectToPeer(c)
    \/ \E c \in Conns : open(c)
    \/ \E c \in Conns : \E n \in {c[1], c[2]} : recvHandshake(c, n)
    \/ \E c \in Conns : \E n \in {c[1], c[2]} : recvRequestChain(c, n)
    \/ \E c \in Conns : \E n \in {c[1], c[2]} : recvChainResponse(c, n)
    \/ \E c \in Conns : \E n \in {c[1], c[2]} : recvNewBlock(c, n)
    \/ \E n \in Nodes : netMine(n)
    \/ stopMining

NetSpec == Init /\ [][NetNext]_vars

\* an open socket fires its events and a message sent on it arrives
FairNetSpec ==
    /\ NetSpec
    /\ \A c \in Conns : WF_vars(open(c))
    /\ \A c \in Conns : \A n \in {c[1], c[2]} :
          WF_vars(recvHandshake(c, n) \/ recvRequestChain(c, n)
                  \/ recvChainResponse(c, n) \/ recvNewBlock(c, n))

\* ======================================================================
\* Properties
\* ======================================================================
\* the positions <<b, i>> of the confirmed transactions: transaction i of
\* block b of the chain
Confirmed ==
    UNION {{<<b, i>> : i \in 1..Len(chain[b].transactions)} : b \in 1..Len(chain)}

ConfirmedTx(p) == chain[p[1]].transactions[p[2]]

InputKeys(tx) == {utxoKey(tx.inputs[i]) : i \in 1..Len(tx.inputs)}

\* C1: no UTXO key is referenced as an input by two different confirmed
\* non-coinbase transactions of the node's chain (no double spend).
C1_NoDoubleSpend ==
    running =>
        \A p \in Confirmed, q \in Confirmed :
            ( /\ ~ConfirmedTx(p).isCoinbase
              /\ ~ConfirmedTx(q).isCoinbase
              /\ ConfirmedTx(p).hash # ConfirmedTx(q).hash )
            => InputKeys(ConfirmedTx(p)) \cap InputKeys(ConfirmedTx(q)) = {}

\* C2: every input of every confirmed non-coinbase transaction referenced a
\* UTXO that existed when its block was applied and carried a signature
\* valid for that UTXO's owner (no forged ownership).
C2_OwnershipVerified ==
    running =>
        \A b \in 1..Len(applied) : \A i \in 1..Len(applied[b]) :
            ~applied[b][i].isCoinbase
            => (applied[b][i].resolved /\ applied[b][i].signed)

\* C3: for every confirmed non-coinbase transaction, the total of the UTXOs
\* its inputs resolved to when its block was applied is at least the total
\* of its outputs.
C3_InputsCoverOutputs ==
    running =>
        \A b \in 1..Len(applied) : \A i \in 1..Len(applied[b]) :
            ~applied[b][i].isCoinbase
            => applied[b][i].inputTotal >= applied[b][i].outputTotal

\* C4: every block appended by mineBlock contains exactly one transaction
\* with isCoinbase = true.
C4_OneCoinbasePerMinedBlock ==
    last = Outcome("mineBlock", "mined") =>
        Cardinality({i \in 1..Len(chain[Len(chain)].transactions) :
                        chain[Len(chain)].transactions[i].isCoinbase}) = 1

\* C5: chain[0].previousHash is the all-zero digest and every later block's
\* previousHash is the hash of the block before it.
C5_HashLinked ==
    running =>
        /\ chain[1].previousHash = ZeroHash
        /\ \A i \in 2..Len(chain) : chain[i].previousHash = chain[i - 1].hash

\* C6: the block at position i of the chain has height i, counting from 0.
C6_HeightIsPosition ==
    running => \A i \in 1..Len(chain) : chain[i].height = i - 1

\* C7: every block of the chain has a stored hash equal to the digest of its
\* header string, with at least `difficulty` leading zero hex characters.
C7_BlocksSealed ==
    running =>
        \A i \in 1..Len(chain) :
            /\ chain[i].hash = sha256(getHeaderString(chain[i]))
            /\ startsWithZeros(chain[i].hash, chain[i].difficulty)

\* C8: once the canonical genesis is loaded, block 0 of the chain is the
\* canonical genesis block in every later state.
C8_GenesisAnchored ==
    running => chain[1] = GENESIS

\* C9: when replaying a received longer chain fails part-way, the chain and
\* the UTXO set are left exactly as they were before the message.
C9_ReplacementAtomic ==
    [][last' = Outcome("handleChainResponse", "failed")
        => (chain' = chain /\ utxoSet' = utxoSet)]_vars

\* the result of replaying the blocks of c from height 0 on an empty set
RECURSIVE ReplayUTXO(_, _)
ReplayUTXO(map, c) ==
    IF Len(c) = 0 THEN map ELSE ReplayUTXO(processBlockUTXOs(map, c[1]), Tail(c))

\* block is the block blockData describes
SameBlock(block, blockData) ==
    /\ block.height = blockData.height
    /\ block.previousHash = blockData.previousHash
    /\ block.difficulty = blockData.difficulty
    /\ block.timestamp = blockData.timestamp
    /\ block.merkleRoot = blockData.merkleRoot
    /\ block.nonce = blockData.nonce
    /\ block.hash = blockData.hash
    /\ Len(block.transactions) = Len(blockData.transactions)
    /\ \A i \in 1..Len(block.transactions) :
          /\ block.transactions[i].inputs = blockData.transactions[i].inputs
          /\ block.transactions[i].outputs = blockData.transactions[i].outputs
          /\ block.transactions[i].isCoinbase = blockData.transactions[i].isCoinbase
          /\ block.transactions[i].timestamp = blockData.transactions[i].timestamp
          /\ block.transactions[i].hash = blockData.transactions[i].hash

AllBlocks(chainData) == \A i \in 1..Len(chainData) : ~Malformed(chainData[i])

\* C10: on a CHAIN_RESPONSE whose chain of blocks is strictly longer than
\* the local chain, the local chain becomes exactly the received sequence of
\* blocks and the UTXO set the result of replaying them from height 0 on an
\* empty set; when the received chain is not longer, chain, UTXO set and
\* mempool are unchanged.
C10_ChainResponse ==
    [][(last'.op = "handleChainResponse" /\ running') =>
          LET chainData == msg'
          IN  /\ (Len(chainData) > Len(chain) /\ AllBlocks(chainData)) =>
                    /\ Len(chain') = Len(chainData)
                    /\ \A i \in 1..Len(chainData) : SameBlock(chain'[i], chainData[i])
                    /\ utxoSet' = ReplayUTXO(<<>>, chain')
              /\ Len(chainData) <= Len(chain) =>
                    UNCHANGED <<chain, utxoSet, mempool>>]_vars

\* a longer chain has replaced a chain the node had already extended
C10_Witness ==
    /\ last = Outcome("handleChainResponse", "replaced")
    /\ Len(chain) = MaxChain
    /\ now > GenesisTimestamp

\* the messages of type `type` that o holds for the connection ws
SentTo(o, ws, type) == {i \in 1..Len(o) : o[i].to = ws /\ o[i].type = type}

\* o holds a message of that type for some connection
Sent(o, type) == \E i \in 1..Len(o) : o[i].type = type /\ o[i].to \in {peers[k] : k \in 1..Len(peers)}

\* o holds exactly one message of that type, with that data, for every open
\* connection but ws, and none for ws
RelayedExcept(o, ws, type, data) ==
    /\ SentTo(o, ws, type) = {}
    /\ \A k \in 1..Len(peers) :
          peers[k] # ws =>
             /\ Cardinality(SentTo(o, peers[k], type)) = 1
             /\ \A i \in SentTo(o, peers[k], type) : o[i].data = data

\* C13: a NEW_BLOCK carrying a block whose hash has fewer leading zeros than
\* the difficulty it declares is not appended: chain, UTXO set and mempool
\* are unchanged and no NEW_BLOCK is sent to any peer.
C13_FailedPowRejected ==
    [][( /\ last'.op = "handleNewBlock"
         /\ ~Malformed(msg')
         /\ ~startsWithZeros(msg'.hash, msg'.difficulty) ) =>
          /\ UNCHANGED <<chain, utxoSet, mempool>>
          /\ ~Sent(out', "NEW_BLOCK")]_vars

\* a block that extends the tip was turned down for its proof of work
C13_Witness ==
    /\ last = Outcome("handleNewBlock", "rejected")
    /\ msg.previousHash = chain[Len(chain)].hash
    /\ ~startsWithZeros(msg.hash, msg.difficulty)

\* C14: on a NEW_BLOCK from connection p carrying a block whose previousHash
\* is the hash of the tip and whose hash passes the proof-of-work test, the
\* block becomes the new tip, the UTXO set is the old one with the block
\* applied, the mempool keeps exactly the transactions whose hash is not in
\* the block, and the block is sent once to every open peer but p and not
\* to p.
C14_BlockAccepted ==
    [][( /\ last'.op = "handleNewBlock"
         /\ ~Malformed(msg')
         /\ msg'.previousHash = chain[Len(chain)].hash
         /\ startsWithZeros(msg'.hash, msg'.difficulty) ) =>
          /\ Len(chain') = Len(chain) + 1
          /\ SubSeq(chain', 1, Len(chain)) = chain
          /\ SameBlock(chain'[Len(chain')], msg')
          /\ utxoSet' = processBlockUTXOs(utxoSet, chain'[Len(chain')])
          /\ mempool' = SelectSeq(mempool, LAMBDA t :
                            \A i \in 1..Len(msg'.transactions) :
                                msg'.transactions[i].hash # t.hash)
          /\ RelayedExcept(out', fromWs, "NEW_BLOCK", msg')]_vars

\* a block was accepted while a transaction it does not hold stayed in the
\* mempool
C14_Witness ==
    /\ last = Outcome("handleNewBlock", "accepted")
    /\ Len(mempool) > 0

\* C15: on a NEW_BLOCK whose previousHash is not the hash of the tip, chain,
\* UTXO set and mempool are unchanged, no NEW_BLOCK is sent, and a
\* REQUEST_CHAIN is sent to the sender exactly when the height the block
\* declares is greater than the length of the chain.
C15_ForeignBlockDropped ==
    [][( /\ last'.op = "handleNewBlock"
         /\ msg'.previousHash # chain[Len(chain)].hash ) =>
          /\ UNCHANGED <<chain, utxoSet, mempool>>
          /\ ~Sent(out', "NEW_BLOCK")
          /\ (SentTo(out', fromWs, "REQUEST_CHAIN") # {}) <=> (msg'.height > Len(chain))
          /\ \A k \in 1..Len(peers) :
                peers[k] # fromWs => SentTo(out', peers[k], "REQUEST_CHAIN") = {}]_vars

\* a block that does not extend the tip made the node ask its sender for
\* the chain
C15_Witness ==
    /\ last = Outcome("handleNewBlock", "dropped")
    /\ SentTo(out, fromWs, "REQUEST_CHAIN") # {}

\* C16: on a NEW_TX from connection p: with the hash already in the mempool
\* nothing changes and nothing is sent; otherwise, when addToMempool
\* succeeds the transaction is sent to every open peer but p and not to p;
\* when it fails nothing is sent and chain, UTXO set and mempool are
\* unchanged.
C16_NewTxRelay ==
    [][last'.op = "handleNewTx" =>
          IF \E i \in 1..Len(mempool) : mempool[i].hash = msg'.hash
          THEN UNCHANGED <<chain, utxoSet, mempool>> /\ ~Sent(out', "NEW_TX")
          ELSE IF mempool' # mempool
          THEN RelayedExcept(out', fromWs, "NEW_TX", msg')
          ELSE UNCHANGED <<chain, utxoSet, mempool>> /\ ~Sent(out', "NEW_TX")]_vars

\* C18: no transaction of the mempool has the hash of a transaction of a
\* block of the chain.
C18_MempoolUnconfirmed ==
    running =>
        \A i \in 1..Len(mempool) : \A p \in Confirmed :
            mempool[i].hash # ConfirmedTx(p).hash

\* the observer of the mempool was called in o
Notified(o) == \E i \in 1..Len(o) : o[i].to = "onMempoolUpdate"

\* C19: addToMempool(tx), as sendTo and NEW_TX call it: when tx fails
\* verification against the UTXO set an error is raised, mempool, chain and
\* UTXO set are unchanged and the mempool observer is not called; when it
\* passes, tx is appended to the mempool and the observer is called.  On
\* NEW_TX the call is made when no transaction of the mempool has the hash.
C19_AddToMempool ==
    [][( /\ last'.op = "handleNewTx"
         /\ \A i \in 1..Len(mempool) : mempool[i].hash # msg'.hash ) =>
          LET tx == RebuildTx(msg')
          IN  IF verify(tx, utxoSet)
              THEN /\ mempool' = Append(mempool, tx)
                   /\ Notified(out')
                   /\ last'.result = "accepted"
              ELSE /\ UNCHANGED <<chain, utxoSet, mempool>>
                   /\ ~Notified(out')
                   /\ last'.result = "rejected"]_vars

\* a transaction spending an output that is not in the UTXO set was turned
\* down
C19_Witness ==
    /\ last = Outcome("handleNewTx", "rejected")
    /\ \E i \in 1..Len(msg.inputs) : ~MapHas(utxoSet, utxoKey(msg.inputs[i]))

\* the addresses whose balances are compared
Addresses == {nodeWallet.address, peerAddress, founderAddress}

\* C20: an admission to the mempool (POST /tx through Wallet.sendTo, or
\* NEW_TX) leaves the chain and the UTXO set unchanged, and with them the
\* balance of every address.
C20_AdmissionKeepsBalances ==
    [][last'.op \in {"sendTo", "handleNewTx"} =>
          /\ chain' = chain
          /\ utxoSet' = utxoSet
          /\ \A a \in Addresses : getBalance(utxoSet', a) = getBalance(utxoSet, a)]_vars

\* the node's own transfer is in the mempool and the node still holds the
\* whole of its mined coins
C20_Witness ==
    /\ last = Outcome("sendTo", "mempool")
    /\ getBalance(utxoSet, nodeWallet.address) >= FPC(MINING_REWARD)
    /\ getBalance(utxoSet, peerAddress) = 0

\* ------------------------------------------------- the two-node network
\* this step, node n handles the message of that type at the head of what
\* is in flight to it on connection c
Taken(c, n, type) ==
    /\ wire[c][n] # <<>>
    /\ msgType(Head(wire[c][n])) = type
    /\ wire'[c][n] = Tail(wire[c][n])

\* a message of that type is in flight to node n on connection c
InFlight(c, n, type) == \E i \in 1..Len(wire[c][n]) : msgType(wire[c][n][i]) = type

\* the HANDSHAKE messages node n sent on connection c in reply to one
Replies(c, n) ==
    handshakes[c][n] - (IF n = Dialer(c) /\ socks[c] = "open" THEN 1 ELSE 0)

\* the mining has stopped and connection c has just been made, with no
\* block on its way and one node holding a longer chain than the other
QuietUnequal(c) ==
    /\ socks[c] = "accepted"
    /\ ~mining
    /\ wire[c] = [n \in Nodes |-> <<>>]
    /\ Len(ledger[Dialer(c)].chain) # Len(ledger[Listener(c)].chain)

\* a REQUEST_CHAIN of the node with the shorter chain is on its way
Requested(c) ==
    \E n \in {c[1], c[2]} :
        /\ Len(ledger[n].chain) < Len(ledger[Peer(c, n)].chain)
        /\ InFlight(c, Peer(c, n), "REQUEST_CHAIN")

Identical(n, p) ==
    /\ ledger[n].chain = ledger[p].chain
    /\ ledger[n].utxoSet = ledger[p].utxoSet

\* C11: when two nodes with the same genesis connect after the mining has
\* stopped and one holds a strictly longer chain, the node with the shorter
\* chain sends REQUEST_CHAIN to its peer, and it eventually holds the chain
\* and the UTXO set of its peer.
C11_Convergence ==
    \A c \in Conns :
        /\ QuietUnequal(c) ~> Requested(c)
        /\ QuietUnequal(c) ~> Identical(Dialer(c), Listener(c))

\* the mining has stopped; the dialer greeted its peer with a chain of one
\* block and was greeted with a chain of two more, and it holds that chain
\* and the UTXO set of its peer
C11_Witness ==
    \E c \in Conns :
        /\ ~mining
        /\ peersOf[Listener(c)][c].handshakeDone
        /\ peersOf[Listener(c)][c].chainLength = 1
        /\ peersOf[Dialer(c)][c].chainLength = 3
        /\ Len(ledger[Dialer(c)].chain) = 3
        /\ Identical(Dialer(c), Listener(c))
        /\ wire[c] = [n \in Nodes |-> <<>>]

\* C12: a node that receives a NEW_BLOCK that does not extend its tip, from
\* a peer whose chain is strictly longer than its own, sends REQUEST_CHAIN
\* to that peer.
C12_RequestFromLongerPeer ==
    [][\A c \in Conns : \A n \in {c[1], c[2]} :
          LET p == Peer(c, n)
              localChain == ledger[n].chain
          IN  (/\ Taken(c, n, "NEW_BLOCK")
               /\ msgData(Head(wire[c][n])).previousHash # localChain[Len(localChain)].hash
               /\ Len(ledger[p].chain) > Len(localChain))
              => /\ Len(wire'[c][p]) = Len(wire[c][p]) + 1
                 /\ msgType(wire'[c][p][Len(wire'[c][p])]) = "REQUEST_CHAIN"]_vars

\* C17: on a connection each node sends at most one HANDSHAKE in reply to
\* the HANDSHAKE messages it receives, and the two nodes send at most three
\* HANDSHAKE messages between them.
C17_HandshakeBounded ==
    \A c \in Conns :
        /\ \A n \in {c[1], c[2]} : Replies(c, n) <= 1
        /\ handshakes[c][Dialer(c)] + handshakes[c][Listener(c)] <= 3

\* every HANDSHAKE of a connection has arrived: the listener, greeted twice,
\* replied once
C17_Witness ==
    \E c \in Conns :
        /\ handshakes[c][Dialer(c)] = 2
        /\ handshakes[c][Listener(c)] = 1
        /\ \A n \in {c[1], c[2]} :
              peersOf[n][c].handshakeDone /\ ~InFlight(c, n, "HANDSHAKE")

\* ------------------------------------------------------ Transaction.verify
\* the wallets there are: the node's and the peer's
Wallets == {nodeWallet, peerWallet}

\* input i of tx references a UTXO of map
InputPresent(tx, i, map) == MapHas(map, utxoKey(tx.inputs[i]))

\* signatures[i] of tx is the signature over tx.hash that the wallet owning
\* the UTXO input i references makes with its private key
OwnerSigned(tx, i, map) ==
    /\ InputPresent(tx, i, map)
    /\ i <= Len(Signatures(tx))
    /\ \E wallet \in Wallets :
          /\ wallet.address = MapGet(map, utxoKey(tx.inputs[i])).address
          /\ Signatures(tx)[i] = signData(tx.hash, wallet.privateKey)

\* this step is a NEW_TX whose transaction was put to addToMempool
VerifiedNewTx ==
    /\ last'.op = "handleNewTx"
    /\ last'.result \in {"accepted", "rejected"}

\* C21: tx.verify(utxoSet) succeeds for a non-coinbase transaction if and
\* only if every input references a UTXO of the set, every input carries the
\* owner's signature over the transaction hash, and the resolved input total
\* is at least the output total; a coinbase transaction always verifies.
\* A transaction that arrives as NEW_TX is admitted exactly when it verifies.
C21_VerifyIff ==
    [][VerifiedNewTx =>
          LET tx == RebuildTx(msg')
          IN  (last'.result = "accepted") <=>
                 \/ tx.isCoinbase
                 \/ /\ \A i \in 1..Len(tx.inputs) : InputPresent(tx, i, utxoSet)
                    /\ \A i \in 1..Len(tx.inputs) : OwnerSigned(tx, i, utxoSet)
                    /\ getInputTotal(tx.inputs, utxoSet) >= SumAmounts(tx.outputs)]_vars

\* C22: the result of verify depends on the transaction and the UTXO set
\* alone: the node, handling a NEW_TX, decides as the peer's process decides
\* on the same transaction with the same UTXO set, so that a transaction the
\* peer admitted at its own POST /tx is admitted by the node.
C22_SameDecision ==
    [][VerifiedNewTx =>
          ((last'.result = "accepted") <=>
              verifyIn(PEER_REGISTRY, RebuildTx(msg'), utxoSet))]_vars

\* ------------------------------------------------------ _processBlockUTXOs
\* the sum of the amounts of a set of UTXO entries
RECURSIVE SumOf(_)
SumOf(entries) ==
    IF entries = {} THEN 0
    ELSE LET e == CHOOSE x \in entries : TRUE
         IN  e.amount + SumOf(entries \ {e})

\* the outputs of a block, each with the key it is stored under
BlockOutputs(block) ==
    UNION {{[key     |-> <<block.transactions[i].hash, j - 1>>,
             address |-> block.transactions[i].outputs[j].address,
             amount  |-> block.transactions[i].outputs[j].amount] :
               j \in 1..Len(block.transactions[i].outputs)} :
           i \in 1..Len(block.transactions)}

\* the keys the non-coinbase transactions of a block spend
BlockInputs(block) ==
    UNION {{utxoKey(block.transactions[i].inputs[j]) :
               j \in 1..Len(block.transactions[i].inputs)} :
           i \in {k \in 1..Len(block.transactions) : ~block.transactions[k].isCoinbase}}

\* the entries of map that a block consumes
Consumed(map, block) == {map[i] : i \in {k \in 1..Len(map) : map[k].key \in BlockInputs(block)}}

\* this step appends one block to the chain; its non-coinbase transactions
\* spend only UTXOs of the set
AppliesBlock ==
    /\ running'
    /\ Len(chain') = Len(chain) + 1
    /\ SubSeq(chain', 1, Len(chain)) = chain
    /\ \A key \in BlockInputs(chain'[Len(chain')]) : MapHas(utxoSet, key)

\* C23: applying a block whose non-coinbase transactions spend only UTXOs
\* of the set changes the balance of each address by the amounts of the
\* block's outputs paid to it minus the amounts of the consumed UTXOs it
\* owned; an address that owns no consumed UTXO and receives no output keeps
\* its balance.
C23_BalanceDelta ==
    [][AppliesBlock =>
          LET block == chain'[Len(chain')]
          IN  \A a \in Addresses :
                 getBalance(utxoSet', a) - getBalance(utxoSet, a) =
                    SumOf({e \in BlockOutputs(block) : e.address = a})
                    - SumOf({e \in Consumed(utxoSet, block) : e.address = a})]_vars

\* --------------------------------------------------------------- mineBlock
\* C24: mineBlock(minerAddress) on a chain of length L appends exactly one
\* block, of height L and with the hash of the previous tip as previousHash;
\* its transactions are a new coinbase followed by the transactions the
\* mempool held when mineBlock started, in their order; afterwards the
\* mempool is empty.
C24_MineBlock ==
    [][last'.op = "mineBlock" =>
          LET L     == Len(chain)
              block == chain'[L + 1]
          IN  /\ Len(chain') = L + 1
              /\ SubSeq(chain', 1, L) = chain
              /\ block.height = L
              /\ block.previousHash = chain[L].hash
              /\ Len(block.transactions) = Len(mempool) + 1
              /\ block.transactions[1].isCoinbase
              /\ \A i \in 1..L : \A j \in 1..Len(chain[i].transactions) :
                     chain[i].transactions[j].hash # block.transactions[1].hash
              /\ Tail(block.transactions) = mempool
              /\ mempool' = <<>>]_vars

\* a block was mined from a mempool that held a transaction
C24_Witness ==
    /\ last = Outcome("mineBlock", "mined")
    /\ Len(chain[Len(chain)].transactions) > 1
    /\ mempool = <<>>

\* C25: with an empty mempool, mineBlock(minerAddress) makes the chain one
\* block longer, raises the balance of minerAddress by MINING_REWARD, adds
\* one entry to the UTXO set (the output of the coinbase) and removes none,
\* and leaves the balance of every other address as it was.
C25_MineEmptyMempool ==
    [][(last'.op = "mineBlock" /\ mempool = <<>>) =>
          LET miner    == nodeWallet.address
              coinbase == chain'[Len(chain')].transactions[1]
          IN  /\ Len(chain') = Len(chain) + 1
              /\ getBalance(utxoSet', miner) = getBalance(utxoSet, miner) + FPC(MINING_REWARD)
              /\ Len(utxoSet') = Len(utxoSet) + 1
              /\ \A i \in 1..Len(utxoSet) : utxoSet'[i] = utxoSet[i]
              /\ utxoSet'[Len(utxoSet')] =
                    [key |-> <<coinbase.hash, 0>>, address |-> miner, amount |-> FPC(MINING_REWARD)]
              /\ \A a \in Addresses \ {miner} :
                    getBalance(utxoSet', a) = getBalance(utxoSet, a)]_vars

\* a block of the coinbase alone was mined and the node holds its reward
C25_Witness ==
    /\ last = Outcome("mineBlock", "mined")
    /\ Len(chain[Len(chain)].transactions) = 1
    /\ getBalance(utxoSet, nodeWallet.address) >= FPC(MINING_REWARD)

\* ------------------------------------------------ Wallet.createTransaction
\* the amounts POST /tx is called with: 20 coins, 30 coins and 20.004 coins
SendAmounts == {FPC(20), FPC(30), FPC(20) + 4}

\* C26: createTransaction(recipient, amount) of a wallet whose UTXOs cover
\* the amount gives a transaction that spends only UTXOs the wallet owns,
\* with one output of amount to the recipient and, when the selected inputs
\* exceed the amount, a second output of exactly input total - amount to
\* the sender; when the UTXOs of the wallet total less than the amount an
\* insufficient-balance error is raised and the mempool stays as it is.
C26_CreateTransaction ==
    [][\A amount \in SendAmounts :
          sendTo(peerAddress, amount) =>
             LET owned == getUTXOs(utxoSet, nodeWallet.address)
                 tx    == createTransaction(nodeWallet, utxoSet, peerAddress, amount, now)
                 total == getInputTotal(tx.inputs, utxoSet)
             IN  IF SumAmounts(owned) < amount
                 THEN /\ last'.result = "insufficient"
                      /\ mempool' = mempool
                 ELSE /\ \A i \in 1..Len(tx.inputs) :
                            \E j \in 1..Len(owned) : owned[j].key = utxoKey(tx.inputs[i])
                      /\ tx.outputs[1] = [address |-> peerAddress, amount |-> amount]
                      /\ IF total > amount
                         THEN /\ Len(tx.outputs) = 2
                              /\ tx.outputs[2] = [address |-> nodeWallet.address,
                                                  amount  |-> total - amount]
                         ELSE Len(tx.outputs) = 1]_vars

\* ---------------------------------------------------------- event loop
\* the mining operations in flight: the round the thread is in and the
\* timeouts of mineLoop that are pending
MiningOps == timers + (IF round # NoRound THEN 1 ELSE 0)

\* C27: at most one mining operation is in flight at any time; POST /mine
\* while continuous mining is active is answered 'Already mining' and mines
\* no block; startMining while mining is active starts no second loop.
C27_OneMiningOperation ==
    [][/\ MiningOps' <= 1
       /\ (postMine /\ isMining) =>
             /\ last' = Outcome("POST /mine", "Already mining")
             /\ UNCHANGED <<chain, utxoSet, round, timers>>
       /\ (startMining /\ isMining) =>
             UNCHANGED <<chain, utxoSet, round, timers, isMining>>]_vars

\* POST /mine was turned down between two rounds of the mining loop
C27_Witness ==
    /\ last = Outcome("POST /mine", "Already mining")
    /\ isMining
    /\ timers = 1
    /\ Len(chain) > 1

\* a valid NEW_BLOCK for the height of the round in progress, mined on the
\* tip the round builds on, waits at the head of the inbox
CompetingBlockWaits ==
    /\ round # NoRound
    /\ inbox # <<>>
    /\ Head(inbox).height = round.height
    /\ Head(inbox).previousHash = chain[Len(chain)].hash
    /\ PowOk(Head(inbox))

\* C28: mining does not stall message processing: while the round for
\* height h is in progress, a valid competing NEW_BLOCK for height h that
\* has arrived can be handled, and is accepted, before the round completes.
C28_MiningDoesNotStall ==
    CompetingBlockWaits =>
        ENABLED (onMessage /\ last' = Outcome("handleNewBlock", "accepted"))

\* ------------------------------------------------------------- persistence
\* C29: between operations the UTXO set is the result of replaying
\* _processBlockUTXOs over the chain from height 0 on an empty set, and a
\* restart, which rebuilds from chain.json, gives the chain and the UTXO set
\* the process had.
C29_ReplayAndRestart ==
    [][/\ running' => utxoSet' = ReplayUTXO(<<>>, chain')
       /\ (restart /\ running) => (chain' = chain /\ utxoSet' = utxoSet)]_vars

\* ---------------------------------------------------------------- C30
LinkOk(c, i) == c[i + 1].previousHash = c[i].hash
TargetMet(c, i) == c[i + 1].hash.z >= c[i + 1].difficulty
DigestOk(c, i) == c[i + 1].hash = sha256(getHeaderString(c[i + 1]))
MerkleOk(c, i) ==
    c[i + 1].merkleRoot =
        computeRoot([k \in 1..Len(c[i + 1].transactions) |-> c[i + 1].transactions[k].hash])
BlockOk(c, i) == LinkOk(c, i) /\ TargetMet(c, i) /\ DigestOk(c, i) /\ MerkleOk(c, i)
FirstFailure(c, i) ==
    IF ~LinkOk(c, i) THEN "broken hash link"
    ELSE IF ~TargetMet(c, i) THEN "invalid PoW"
    ELSE IF ~DigestOk(c, i) THEN "hash mismatch"
    ELSE "merkle mismatch"

\* C30: validateChain() returns success exactly when every block after
\* genesis has the hash of the block before it as previousHash, a hash that
\* meets its difficulty, a hash that is the digest of its header and a
\* merkleRoot that is the root of its transactions; otherwise it returns
\* the smallest index of a block that fails, with the reason of the first
\* of these checks, in this order, that the block fails.  The chain, the
\* UTXO set and the mempool are as they were.
C30_ValidateChain ==
    [][callValidateChain =>
          LET r      == out'[1].data
              failed == {i \in 1..(Len(chain) - 1) : ~BlockOk(chain, i)}
          IN  /\ r.valid <=> failed = {}
              /\ ~r.valid =>
                    /\ r.block \in failed
                    /\ \A i \in failed : r.block <= i
                    /\ r.reason = FirstFailure(chain, r.block)
              /\ chain' = chain /\ utxoSet' = utxoSet /\ mempool' = mempool]_vars

\* a chain whose first block is sound and whose second has a sound header
\* and another Merkle root was found invalid at index 2
C30_Witness ==
    /\ last = Outcome("validateChain", "merkle mismatch")
    /\ out[1].data.block = 2
    /\ Len(chain) = 3

\* ---------------------------------------------------------------- C31
\* the content of transaction tx is not the content its hash was taken of
ContentChanged(tx) == tx.hash # computeHash(tx.inputs, tx.outputs, tx.timestamp, tx.isCoinbase)
Tampered(c, i) == \E k \in 1..Len(c[i + 1].transactions) : ContentChanged(c[i + 1].transactions[k])

\* C31: when the content of a transaction of a block of the chain was
\* changed after it was confirmed, validateChain() reports a block as
\* invalid, and when nothing else is wrong with the chain it reports that
\* block with a Merkle mismatch.
C31_TamperDetected ==
    [][callValidateChain =>
          LET r == out'[1].data
          IN  \A i \in 0..(Len(chain) - 1) :
                 Tampered(chain, i) =>
                    /\ ~r.valid
                    /\ (/\ i >= 1 => LinkOk(chain, i) /\ TargetMet(chain, i) /\ DigestOk(chain, i)
                        /\ \A j \in 1..(Len(chain) - 1) :
                              j # i => BlockOk(chain, j) /\ ~Tampered(chain, j))
                          => (r.block = i /\ r.reason = "merkle mismatch")]_vars

\* ---------------------------------------------------------------- C32
\* C32: for every list of one to MaxLeaves leaf hashes and every index of
\* the list, the proof getProof gives for the index is accepted by
\* verifyProof for the leaf at the index and the root computeRoot gives,
\* lists of odd length included.
C32_MerkleRoundTrip == last.op = "verifyProof" => last.result = "true"

\* the proof of the last of five different hashes, which is paired with
\* itself on two levels, was verified
C32_Witness ==
    /\ last = Outcome("verifyProof", "true")
    /\ Len(msg) = 5
    /\ \A j, k \in 1..5 : j # k => msg[j] # msg[k]
    /\ out[1].data.index = 4
    /\ Len(out[1].data.proof) = 3

\* ---------------------------------------------------------------- C33
MineReturned == last = Outcome("mine", "returned")

\* C33: for a difficulty that can be met, mine() returns; when it has
\* returned, the hash of the block is the digest of its header string with
\* the nonce it ended on and starts with at least difficulty zeros, and the
\* block is the one the operator mine gives for the block as constructed.
C33_MineTerminates ==
    /\ (last = Outcome("mine", "searching")) ~> MineReturned
    /\ [](MineReturned =>
             /\ msg.hash = sha256(getHeaderString(msg))
             /\ msg.hash.z >= msg.difficulty
             /\ msg.nonce >= 1
             /\ msg = mine(out[1].data))

\* mine() returned after more than one iteration with a hash of exactly
\* difficulty zeros
C33_Witness ==
    /\ MineReturned
    /\ msg.nonce > 1
    /\ msg.difficulty = DIFFICULTY
    /\ msg.hash.z = DIFFICULTY

\* ---------------------------------------------------------------- C34
\* C34: when the node starts and the stored chain cannot be loaded, the file
\* being unparseable or a block at some position of the stored array being
\* malformed, the chain is afterwards the canonical genesis block alone and
\* the UTXO set holds the genesis output alone.
C34_CorruptChainRecovered ==
    [][(restart /\ CannotLoad(chainFile)) =>
          /\ chain' = <<GENESIS>>
          /\ utxoSet' = loadCanonicalGenesis.utxoSet]_vars

\* ---------------------------------------------------------------- C35
\* C35: a NEW_BLOCK whose data lacks a field of a block is not fatal: when
\* it has been handled the process runs, and the chain, the UTXO set and the
\* mempool are as they were.
C35_MalformedNotFatal ==
    [][(peerMsgs' = peerMsgs + 1 /\ last'.op = "handleNewBlock" /\ Malformed(msg')) =>
          /\ running'
          /\ chain' = chain
          /\ utxoSet' = utxoSet
          /\ mempool' = mempool]_vars

\* ---------------------------------------------------------------- C36
\* C36: whatever the order of PEER_LIST messages, /peers/add requests and
\* open events, the node has connected to no address that is its own, and
\* it never has two sockets, connecting or open, to the same address.
C36_NoDuplicateConnection ==
    /\ \A k \in 1..Len(dials) : dials[k].address # selfAddress
    /\ \A j, k \in 1..Len(dials) : j # k => dials[j].address # dials[k].address

\* ---------------------------------------------------------------- C37
\* the sum of the outputs of the coinbase transactions of the blocks of c
RECURSIVE CoinbaseOfTxs(_)
CoinbaseOfTxs(txs) ==
    IF Len(txs) = 0 THEN 0
    ELSE (IF txs[1].isCoinbase THEN SumAmounts(txs[1].outputs) ELSE 0)
         + CoinbaseOfTxs(Tail(txs))

RECURSIVE CoinbaseTotal(_)
CoinbaseTotal(c) ==
    IF Len(c) = 0 THEN 0 ELSE CoinbaseOfTxs(c[1].transactions) + CoinbaseTotal(Tail(c))

\* C37: in every state of a node that only serves its own payments and
\* mines, the amounts of the entries of the UTXO set sum to at most the sum
\* of the coinbase outputs of the blocks of the chain.
C37_ValueConserved == SumAmounts(utxoSet) <= CoinbaseTotal(chain)

\* ---------------------------------------------------------------- C38
\* C38: whatever amounts sendTo was called with, every entry of the UTXO
\* set has an amount above zero and the balance of every address is zero or
\* more.
C38_PositiveAmounts ==
    /\ \A i \in 1..Len(utxoSet) : utxoSet[i].amount > 0
    /\ \A address \in {nodeWallet.address, peerAddress, founderAddress} :
          getBalance(utxoSet, address) >= 0

\* ---------------------------------------------------------------- C39
\* C39: a block the node appends when it handles NEW_BLOCK declares a
\* difficulty that is not lower than the difficulty the node is configured
\* with.
C39_DifficultyFloor ==
    [][(peerMsgs' = peerMsgs + 1 /\ last' = Outcome("handleNewBlock", "accepted")) =>
          /\ msg'.difficulty >= DIFFICULTY
          /\ chain'[Len(chain')].difficulty >= DIFFICULTY]_vars

\* ---------------------------------------------------------------- C40
\* C40: whatever the order of the messages of peers, of the messages that
\* come back and of mining, the node has passed on no block twice and no
\* transaction twice.
C40_RelayedOnce ==
    \A j, k \in 1..Len(relays) :
       (j # k /\ relays[j].type = relays[k].type) =>
          relays[j].data.hash # relays[k].data.hash

====
